---- MODULE Spec2Model ----
(***************************************************************************)
(* pydantic-wizard: type resolution, handler registry, recursive prompt    *)
(* engine and validation repair loop.                                      *)
(*                                                                         *)
(* Python values are encoded as records with a fixed set of fields so that *)
(* any two of them can be compared:                                        *)
(*   annotation  [k |-> kind, args |-> sequence of annotations]            *)
(*   value       [t |-> tag, s |-> text, n |-> number, xs |-> items,       *)
(*                ks |-> keys]                                             *)
(***************************************************************************)
EXTENDS Integers, Sequences, FiniteSets, TLC

\* every field name of the record encodings, in the order each record lists its
\* fields (records are built in the checker's normal form)
FieldNames ==
    [ k |-> "k", t |-> "t", s |-> "s", n |-> "n", xs |-> "xs", ks |-> "ks",
      ev |-> "ev", h |-> "h", spec |-> "spec", name |-> "name",
      annotation |-> "annotation", origin |-> "origin", args |-> "args",
      default |-> "default", answer |-> "answer", registry |-> "registry",
      prompt_model_fn |-> "prompt_model_fn",
      default_factory |-> "default_factory", constraints |-> "constraints",
      init |-> "init", frozen |-> "frozen", is_required |-> "is_required",
      is_optional |-> "is_optional", is_init |-> "is_init",
      inner_type |-> "inner_type", is_enum |-> "is_enum",
      is_literal |-> "is_literal", is_pydantic_model |-> "is_pydantic_model",
      is_union |-> "is_union", union_types |-> "union_types",
      is_list |-> "is_list", is_set |-> "is_set", is_dict |-> "is_dict",
      key_type |-> "key_type", value_type |-> "value_type", v |-> "v",
      log |-> "log", exc |-> "exc", handler |-> "handler",
      priority |-> "priority", loc |-> "loc", msg |-> "msg" ]

VARIABLES
    handlers,      \* TypeHandlerRegistry._handlers
    regLog,        \* history: the register calls made so far, in order
    lastOp,        \* the registry operation that acted last
    querySpec,     \* descriptor passed to the last get_handler call
    selected,      \* handler returned by the last get_handler call
    handlersAtCall, \* _handlers as it was when the last get_handler call began
    pmClass,       \* prompt_model: model_class of the last top-level call
    pmDefaults,    \* prompt_model: defaults of the last top-level call
    pmResult,      \* prompt_model: the value map it returned
    pmLog,         \* history: lookups, handler calls and prompts of that call
    pmExc,         \* exception that ended the call ("" when it returned)
    vfPc,          \* validate_and_fix: where the loop stands
    vfClass,       \* validate_and_fix: model_class
    vfData,        \* validate_and_fix: data, the caller's value map
    vfErrors,      \* e.errors() of the last failed validation
    vfIdx,         \* position in e.errors() of the error handled next
    vfResult,      \* value validate_and_fix returned
    vfRounds,      \* history: repair rounds begun
    vfDecision,    \* history: last answer to "Would you like to fix these errors?"
    vfData0,       \* history: data as validate_and_fix received it
    vfRoundData,   \* history: data when the current repair round began
    vfRoundLog,    \* history: prompts of the current repair round, in order
    vfAllValid,    \* history: every answer so far was valid for the reported field
    cdHandler,     \* serialize / deserialize: the handler applied
    cdSpec,        \* the descriptor passed to deserialize
    cdValue,       \* the value passed to serialize
    cdRaw,         \* what serialize returned
    cdBack,        \* what deserialize returned for cdRaw
    cdExc,         \* exception deserialize raised ("" when it returned)
    cdPc,          \* "idle", "serialized" or "deserialized"
    files,         \* the file system: files[i] is the document at Paths[i]
    ymCall,        \* arguments of the last serialize_to_yaml call
    ymLoaded,      \* what the last load_from_yaml call returned
    appCmd,        \* the command being run, with its arguments
    appPc,         \* where the command stands
    appClass,      \* config_class, once resolved
    appModelName,  \* model_name load_from_yaml returned (edit)
    appExit,       \* exit code of the command (-1 while it runs)
    appLog         \* history: what the command did, in order

regVars == <<handlers, regLog, lastOp, querySpec, selected, handlersAtCall>>

pmVars == <<pmClass, pmDefaults, pmResult, pmLog, pmExc>>

vfVars ==
    << vfPc, vfClass, vfData, vfErrors, vfIdx, vfResult, vfRounds, vfDecision,
       vfData0, vfRoundData, vfRoundLog, vfAllValid >>

cdVars == <<cdHandler, cdSpec, cdValue, cdRaw, cdBack, cdExc, cdPc>>

ioVars == <<files, ymCall, ymLoaded>>

appVars == <<appCmd, appPc, appClass, appModelName, appExit, appLog>>

vars == <<regVars, pmVars, vfVars, cdVars, ioVars, appVars>>

----------------------------------------------------------------------------
(* Annotations *)

Ann(k, args) == [k |-> k, args |-> args]

T(k) == Ann(k, <<>>)

\* Python None where a type object is expected (FieldSpec.inner_type = None)
NoType == T("<None>")

NoneType == T("NoneType")

AnyType == T("Any")

ListOf(a) == Ann("list", <<a>>)

SetOf(a) == Ann("set", <<a>>)

DictOf(k, v) == Ann("dict", <<k, v>>)

\* X | Y  (types.UnionType)
UnionOf(as) == Ann("UnionType", as)

\* typing.Union[X, Y]
TypingUnionOf(as) == Ann("Union", as)

LiteralOf(vals) == Ann("Literal", vals)

EnumTypes == {"SampleEnum"}

ModelTypes == {"InnerModel", "SimpleConfig", "InnerB"}

_is_none_type(tp) == tp = NoneType

_is_pydantic_model(tp) == tp.k \in ModelTypes

_is_enum_type(tp) == tp.k \in EnumTypes

\* typing.get_origin
get_origin(a) ==
    IF a.k \in {"list", "set", "dict", "Literal", "UnionType", "Union"}
    THEN a.k ELSE "<None>"

\* typing.get_args
get_args(a) == a.args

----------------------------------------------------------------------------
(* Values *)

Val(t, s, n, xs, ks) == [t |-> t, s |-> s, n |-> n, xs |-> xs, ks |-> ks]

None == Val("None", "", 0, <<>>, <<>>)

PydanticUndefined == Val("PydanticUndefined", "", 0, <<>>, <<>>)

VStr(s) == Val("str", s, 0, <<>>, <<>>)

VInt(n) == Val("int", "", n, <<>>, <<>>)

VBool(b) == Val("bool", "", IF b THEN 1 ELSE 0, <<>>, <<>>)

VList(xs) == Val("list", "", 0, xs, <<>>)

\* a dict keeps insertion order: ks[i] is the key of xs[i]
VDict(ks, xs) == Val("dict", "", 0, xs, ks)

\* a BaseModel instance of class cls with the given field values
VModel(cls, ks, xs) == Val("model", cls, 0, xs, ks)

----------------------------------------------------------------------------
(* FieldSpec and the type resolver *)

FieldSpec(name) ==
    [ name |-> name,
      annotation |-> NoType,
      origin |-> "<None>",
      args |-> <<>>,
      default |-> PydanticUndefined,
      default_factory |-> "<None>",
      constraints |-> {},
      is_required |-> TRUE,
      is_optional |-> FALSE,
      is_init |-> TRUE,
      inner_type |-> NoType,
      is_enum |-> FALSE,
      is_literal |-> FALSE,
      is_pydantic_model |-> FALSE,
      is_union |-> FALSE,
      union_types |-> <<>>,
      is_list |-> FALSE,
      is_set |-> FALSE,
      is_dict |-> FALSE,
      key_type |-> NoType,
      value_type |-> NoType ]

\* the alternatives kept as they are, None included
non_none_all(args) == args

non_none_of(args) ==
    LET keep(a) == ~_is_none_type(a)
    IN  SelectSeq(args, keep)

\* a resolver that also marks a list of structures as a structure
_resolve_type_marking_elements(annotation) ==
    LET origin == get_origin(annotation)
        args == get_args(annotation)
        spec == [FieldSpec("") EXCEPT !.origin = origin, !.args = args]
    IN  IF origin = "list"
        THEN [spec EXCEPT !.is_list = TRUE,
                          !.is_pydantic_model = Len(args) > 0 /\ _is_pydantic_model(args[1]),
                          !.inner_type = IF Len(args) > 0 THEN args[1] ELSE AnyType]
        ELSE [spec EXCEPT !.is_enum = _is_enum_type(annotation),
                          !.is_pydantic_model = ~_is_enum_type(annotation)
                                                /\ _is_pydantic_model(annotation),
                          !.inner_type = annotation]

RECURSIVE _resolve_type(_)
_resolve_type(annotation) ==
    LET origin == get_origin(annotation)
        args == get_args(annotation)
        spec == [FieldSpec("") EXCEPT !.origin = origin, !.args = args]
    IN  IF origin \in {"UnionType", "Union"}
        THEN LET non_none == non_none_of(args)
                 has_none == Len(non_none) < Len(args)
                 s1 == [spec EXCEPT !.is_optional = has_none]
             IN  IF Len(non_none) = 1
                 THEN LET inner == _resolve_type(non_none[1])
                      IN  [s1 EXCEPT
                             !.inner_type = IF inner.inner_type # NoType
                                            THEN inner.inner_type
                                            ELSE non_none[1],
                             !.is_enum = inner.is_enum,
                             !.is_literal = inner.is_literal,
                             !.is_pydantic_model = inner.is_pydantic_model,
                             !.is_list = inner.is_list,
                             !.is_set = inner.is_set,
                             !.is_dict = inner.is_dict,
                             !.union_types = inner.union_types,
                             !.is_union = inner.is_union,
                             !.key_type = inner.key_type,
                             !.value_type = inner.value_type]
                 ELSE IF Len(non_none) > 1
                 THEN [s1 EXCEPT !.is_union = TRUE, !.union_types = non_none]
                 ELSE s1
        ELSE IF origin = "list"
        THEN [spec EXCEPT !.is_list = TRUE,
                          !.inner_type = IF Len(args) > 0 THEN args[1] ELSE AnyType]
        ELSE IF origin = "set"
        THEN [spec EXCEPT !.is_set = TRUE,
                          !.inner_type = IF Len(args) > 0 THEN args[1] ELSE AnyType]
        ELSE IF origin = "dict"
        THEN [spec EXCEPT !.is_dict = TRUE,
                          !.key_type = IF Len(args) > 0 THEN args[1] ELSE T("str"),
                          !.value_type = IF Len(args) > 1 THEN args[2] ELSE AnyType]
        ELSE IF origin = "Literal"
        THEN [spec EXCEPT !.is_literal = TRUE]
        ELSE [spec EXCEPT !.is_enum = _is_enum_type(annotation),
                          !.is_pydantic_model = ~_is_enum_type(annotation)
                                                /\ _is_pydantic_model(annotation),
                          !.inner_type = annotation]

----------------------------------------------------------------------------
(* Handlers and the registry *)

\* a seed list with the primitive handlers ahead of the composite ones
SeedHandlers_primitives_first ==
    << "BoolHandler", "EnumHandler", "LiteralHandler", "DecimalHandler",
       "IntHandler", "FloatHandler", "DatetimeHandler", "TimeHandler",
       "TimedeltaHandler", "StrHandler", "OptionalHandler", "UnionHandler",
       "ListHandler", "SetHandler", "DictHandler", "PydanticModelHandler" >>

\* TypeHandlerRegistry.__init__: the seed list
SeedHandlers ==
    << "OptionalHandler", "UnionHandler", "ListHandler", "SetHandler",
       "DictHandler", "BoolHandler", "EnumHandler", "LiteralHandler",
       "DecimalHandler", "IntHandler", "FloatHandler", "DatetimeHandler",
       "TimeHandler", "TimedeltaHandler", "PydanticModelHandler", "StrHandler" >>

\* Handlers a caller may register; each is a TypeHandler with its own can_handle:
\*   CustomInt    handles inner_type int (overlaps IntHandler)
\*   CustomAny    handles every descriptor
\*   CustomBytes  handles inner_type bytes (no built-in does)
CustomHandlers == {"CustomInt", "CustomAny", "CustomBytes"}

\* get_handler returning no handler
NoHandler == "<None>"

StrHandler_can_handle(spec) == spec.inner_type = T("str")

can_handle(h, spec) ==
    CASE h = "OptionalHandler" -> spec.is_optional
      [] h = "UnionHandler" -> spec.is_union /\ ~spec.is_optional
      [] h = "ListHandler" -> spec.is_list
      [] h = "SetHandler" -> spec.is_set
      [] h = "DictHandler" -> spec.is_dict
      [] h = "BoolHandler" -> spec.inner_type = T("bool")
      [] h = "EnumHandler" -> spec.is_enum
      [] h = "LiteralHandler" -> spec.is_literal
      [] h = "DecimalHandler" -> spec.inner_type = T("Decimal")
      [] h = "IntHandler" -> spec.inner_type = T("int")
      [] h = "FloatHandler" -> spec.inner_type = T("float")
      [] h = "DatetimeHandler" -> spec.inner_type = T("datetime")
      [] h = "TimeHandler" -> spec.inner_type = T("time")
      [] h = "TimedeltaHandler" -> spec.inner_type = T("timedelta")
      [] h = "PydanticModelHandler" -> spec.is_pydantic_model
      [] h = "StrHandler" -> StrHandler_can_handle(spec)
      [] h = "CustomInt" -> spec.inner_type = T("int")
      [] h = "CustomAny" -> TRUE
      [] h = "CustomBytes" -> spec.inner_type = T("bytes")

\* the for loop of get_handler, from position i on
RECURSIVE get_handler_from(_, _, _)
get_handler_from(hs, spec, i) ==
    IF i > Len(hs) THEN NoHandler
    ELSE IF can_handle(hs[i], spec) THEN hs[i]
    ELSE get_handler_from(hs, spec, i + 1)

get_handler_last(hs, spec) ==
    LET m == {i \in 1..Len(hs) : can_handle(hs[i], spec)}
    IN  IF m = {} THEN NoHandler
        ELSE hs[CHOOSE i \in m : \A j \in m : j <= i]

get_handler(hs, spec) == get_handler_from(hs, spec, 1)

register_swapped(hs, handler, priority) ==
    IF priority THEN Append(hs, handler) ELSE <<handler>> \o hs

register(hs, handler, priority) ==
    IF priority THEN <<handler>> \o hs ELSE Append(hs, handler)

----------------------------------------------------------------------------
(* Structures the operator configures: the schema collaborator's input *)

PlainTypes ==
    { "str", "int", "float", "bool", "Decimal", "datetime", "time", "timedelta",
      "bytes", "Any", "SampleEnum", "InnerModel" }

StrategyLiteral == LiteralOf(<<T("'aggressive'"), T("'passive'")>>)

BaseAnnotations == {T(k) : k \in PlainTypes} \cup {StrategyLiteral}

Annotations ==
    BaseAnnotations
    \cup {ListOf(T(k)) : k \in {"str", "InnerModel", "SampleEnum", "bytes"}}
    \cup {SetOf(T(k)) : k \in {"str", "SampleEnum"}}
    \cup {DictOf(T("str"), T(k)) : k \in {"Decimal", "InnerModel"}}
    \cup {UnionOf(<<T(k), NoneType>>) : k \in {"str", "int", "InnerModel", "bytes"}}
    \cup { Ann("list", <<>>), Ann("dict", <<>>),
           ListOf(ListOf(T("str"))),
           ListOf(UnionOf(<<T("str"), NoneType>>)),
           UnionOf(<<ListOf(T("str")), NoneType>>),
           UnionOf(<<StrategyLiteral, NoneType>>),
           UnionOf(<<T("SampleEnum"), NoneType>>),
           UnionOf(<<SetOf(T("str")), NoneType>>),
           UnionOf(<<NoneType, DictOf(T("str"), T("Decimal"))>>),
           UnionOf(<<T("InnerModel"), T("InnerB")>>),
           UnionOf(<<T("InnerModel"), T("InnerB"), NoneType>>),
           TypingUnionOf(<<T("int"), T("str")>>),
           TypingUnionOf(<<T("int"), NoneType>>) }

\* introspect_model on one field without default: the resolved descriptor, named
resolve_field(name, annotation) ==
    LET r == _resolve_type(annotation)
        o == r.is_optional /\ r.is_required
    IN  [r EXCEPT !.name = name, !.annotation = annotation,
                  !.default = IF o THEN None ELSE @,
                  !.is_required = IF o THEN FALSE ELSE @]

\* the descriptor ListHandler.prompt builds for element i
ListHandler_inner_spec(spec, i) ==
    [FieldSpec(spec.name \o "[" \o ToString(i) \o "]") EXCEPT
        !.annotation = spec.inner_type,
        !.inner_type = spec.inner_type,
        !.is_required = TRUE,
        !.is_optional = FALSE,
        !.is_pydantic_model = _is_pydantic_model(spec.inner_type),
        !.is_enum = _is_enum_type(spec.inner_type)]

\* the descriptor DictHandler.prompt builds for the value stored under key
DictHandler_val_spec(spec, key) ==
    [FieldSpec(spec.name \o "[" \o key \o "]") EXCEPT
        !.annotation = spec.value_type,
        !.inner_type = spec.value_type,
        !.is_required = TRUE]

\* the descriptor UnionHandler.prompt builds for the chosen alternative
UnionHandler_inner_spec(spec, chosen_type) ==
    [FieldSpec(spec.name) EXCEPT
        !.annotation = chosen_type,
        !.inner_type = chosen_type,
        !.is_required = TRUE,
        !.is_pydantic_model = _is_pydantic_model(chosen_type),
        !.is_enum = _is_enum_type(chosen_type)]

\* the descriptor OptionalHandler.prompt builds once the gate is answered yes
OptionalHandler_inner_spec(spec) ==
    [FieldSpec(spec.name) EXCEPT
        !.annotation = IF spec.inner_type # NoType THEN spec.inner_type
                       ELSE spec.annotation,
        !.inner_type = spec.inner_type,
        !.constraints = spec.constraints,
        !.is_required = FALSE,
        !.is_optional = FALSE,
        !.is_enum = spec.is_enum,
        !.is_literal = spec.is_literal,
        !.is_pydantic_model = spec.is_pydantic_model,
        !.is_list = spec.is_list,
        !.is_set = spec.is_set,
        !.is_dict = spec.is_dict,
        !.is_union = spec.is_union,
        !.union_types = spec.union_types,
        !.key_type = spec.key_type,
        !.value_type = spec.value_type]

\* the descriptor SetHandler.prompt hands to ListHandler for a non-enum set
SetHandler_list_spec(spec) ==
    [FieldSpec(spec.name) EXCEPT
        !.annotation = spec.annotation,
        !.inner_type = spec.inner_type,
        !.is_list = TRUE,
        !.is_required = spec.is_required]

\* descriptors get_handler is called with: those of introspected fields and
\* those the composite handlers synthesize from them
FieldSpecs == {resolve_field("f", a) : a \in Annotations}

QuerySpecs ==
    FieldSpecs
    \cup {ListHandler_inner_spec(s, 0) : s \in {x \in FieldSpecs : x.is_list}}
    \cup {DictHandler_val_spec(s, "k") : s \in {x \in FieldSpecs : x.is_dict}}
    \cup {OptionalHandler_inner_spec(s) : s \in {x \in FieldSpecs : x.is_optional}}
    \cup {UnionHandler_inner_spec(s, s.union_types[1]) :
             s \in {x \in FieldSpecs : x.is_union}}

----------------------------------------------------------------------------
(* Registry operations *)

MaxRegs == 2

PmIdle ==
    /\ pmClass = "<None>"
    /\ pmDefaults = None
    /\ pmResult = None
    /\ pmLog = <<>>
    /\ pmExc = ""

RegIdle ==
    /\ handlers = SeedHandlers
    /\ regLog = <<>>
    /\ lastOp = "init"
    /\ querySpec = FieldSpec("")
    /\ selected = NoHandler
    /\ handlersAtCall = SeedHandlers

VfIdle ==
    /\ vfPc = "idle"
    /\ vfClass = "<None>"
    /\ vfData = None
    /\ vfErrors = <<>>
    /\ vfIdx = 0
    /\ vfResult = None
    /\ vfRounds = 0
    /\ vfDecision = VStr("<not asked>")
    /\ vfData0 = None
    /\ vfRoundData = None
    /\ vfRoundLog = <<>>
    /\ vfAllValid = TRUE

\* paths the commands read and write
Paths == <<"config.yaml", "out.yaml">>

\* no file at a path
NoFile == [t |-> "<no file>", s |-> "", n |-> 0, xs |-> <<>>, ks |-> <<>>]

IoIdle ==
    /\ files = [i \in 1..Len(Paths) |-> NoFile]
    /\ ymCall = <<>>
    /\ ymLoaded = <<>>

AppIdle ==
    /\ appCmd = <<>>
    /\ appPc = "idle"
    /\ appClass = "<None>"
    /\ appModelName = ""
    /\ appExit = -1
    /\ appLog = <<>>

CdIdle ==
    /\ cdHandler = "<None>"
    /\ cdSpec = FieldSpec("")
    /\ cdValue = None
    /\ cdRaw = None
    /\ cdBack = None
    /\ cdExc = ""
    /\ cdPc = "idle"

RegInit == RegIdle /\ PmIdle /\ VfIdle /\ CdIdle /\ IoIdle /\ AppIdle

\* registry.register(handler, priority=priority)
Register(h, priority) ==
    /\ Len(regLog) < MaxRegs
    /\ handlers' = register(handlers, h, priority)
    /\ regLog' = Append(regLog, [handler |-> h, priority |-> priority])
    /\ lastOp' = "register"
    /\ UNCHANGED <<querySpec, selected, handlersAtCall, pmVars, vfVars, cdVars, ioVars, appVars>>

\* registry.get_handler(spec)
GetHandler(spec) ==
    /\ handlersAtCall' = handlers
    /\ selected' = get_handler(handlers, spec)
    /\ querySpec' = spec
    /\ lastOp' = "get_handler"
    /\ UNCHANGED <<handlers, regLog, pmVars, vfVars, cdVars, ioVars, appVars>>

RegisterStep == \E h \in CustomHandlers, p \in BOOLEAN : Register(h, p)

GetHandlerStep == \E spec \in QuerySpecs : GetHandler(spec)

RegNext == RegisterStep \/ GetHandlerStep

SpecRegistry == RegInit /\ [][RegNext]_vars

----------------------------------------------------------------------------
(* Registry claims *)

\* positions of the handlers of hs that can handle spec
Matching(hs, spec) == {i \in 1..Len(hs) : can_handle(hs[i], spec)}

\* C1: get_handler(spec) returns the first handler, in the registry's current
\* sequence order, whose can_handle(spec) is true (no handler when none is), and
\* the call leaves the handler sequence as it found it.
C1_FirstMatchReadOnly ==
    lastOp = "get_handler" =>
        /\ handlers = handlersAtCall
        /\ LET m == Matching(handlersAtCall, querySpec)
           IN  IF m = {} THEN selected = NoHandler
               ELSE \E i \in m : /\ \A j \in m : i <= j
                                 /\ selected = handlersAtCall[i]

\* a lookup that several handlers of a grown registry match
C1_Witness ==
    /\ lastOp = "get_handler"
    /\ Len(regLog) > 0
    /\ Cardinality(Matching(handlers, querySpec)) >= 3
    /\ selected # NoHandler

RECURSIVE Reverse(_)
Reverse(s) == IF s = <<>> THEN <<>> ELSE Append(Reverse(Tail(s)), Head(s))

RECURSIVE RegisteredWith(_, _)
RegisteredWith(log, priority) ==
    IF log = <<>> THEN <<>>
    ELSE IF Head(log).priority = priority
         THEN <<Head(log).handler>> \o RegisteredWith(Tail(log), priority)
         ELSE RegisteredWith(Tail(log), priority)

\* C2: after any sequence of register calls the dispatch order is the
\* priority=True handlers in reverse order of registration, then the seed handlers
\* in seed order, then the priority=False handlers in order of registration; so a
\* front-registered handler that can handle the descriptor wins over every
\* built-in, and an appended handler is returned only when nothing before it matches.
C2_DispatchOrder ==
    LET front == Reverse(RegisteredWith(regLog, TRUE))
        back == RegisteredWith(regLog, FALSE)
        nf == Len(front)
        nb == nf + Len(SeedHandlers)
    IN  /\ handlers = front \o SeedHandlers \o back
        /\ lastOp = "get_handler" =>
              LET m == Matching(handlers, querySpec)
              IN  /\ (\E i \in m : i <= nf) =>
                        \E i \in m : /\ i <= nf
                                     /\ selected = handlers[i]
                                     /\ \A j \in m : i <= j
                  /\ (\A i \in m : i > nb) /\ m # {} =>
                        \E i \in m : /\ selected = handlers[i]
                                     /\ \A j \in m : i <= j
                  /\ (\E i \in m : i <= nb) /\ ~(\E i \in m : i <= nf) =>
                        selected \in {SeedHandlers[k] : k \in 1..Len(SeedHandlers)}

\* one handler registered in front, another appended, and a lookup that the front
\* handler and a built-in both match
C2_Witness ==
    /\ lastOp = "get_handler"
    /\ regLog = << [handler |-> "CustomAny", priority |-> FALSE],
                   [handler |-> "CustomInt", priority |-> TRUE] >>
    /\ querySpec.inner_type = T("int")
    /\ can_handle("IntHandler", querySpec)
    /\ selected = "CustomInt"

\* C3: with the seed list present get_handler returns a handler for every
\* descriptor.
C3_SeedListTotal ==
    lastOp = "get_handler" => selected # NoHandler

----------------------------------------------------------------------------
(* The operator's input and Python helpers *)

\* largest item or entry count the operator enters
MaxCount == 2

\* integers the operator's texts and the fields' bounds range over
MinInt == -1

MaxInt == 101

\* texts typed at a string prompt
StrTexts == {"", " ", "a", " b"}

\* texts typed at an integer prompt
IntTexts == {"", "7", "-1", "101", "x"}

\* texts typed at an item-count or entry-count prompt
CountTexts == {ToString(n) : n \in 0..MaxCount} \cup {"x", ""}

\* texts typed at a map-key prompt
KeyTexts == {"k1", "k2"}

\* str.strip()
Strip(t) ==
    CASE t = " " -> ""
      [] t = " b" -> "b"
      [] OTHER -> t

\* int(text) succeeds
IsIntText(t) == \E n \in MinInt..MaxInt : ToString(n) = t

\* int(text)
ParseInt(t) == CHOOSE n \in MinInt..MaxInt : ToString(n) = t

\* str.isdigit()
IsDigit(t) == \E n \in 0..MaxInt : ToString(n) = t

\* truthiness of a value: `if value`
Truthy(v) ==
    CASE v.t \in {"None", "PydanticUndefined"} -> FALSE
      [] v.t = "str" -> v.s # ""
      [] v.t \in {"int", "bool"} -> v.n # 0
      [] v.t \in {"list", "set", "dict"} -> v.xs # <<>>
      [] OTHER -> TRUE

----------------------------------------------------------------------------
(* Numbers with a fraction, dates and durations *)

\* digits after the point a decimal may carry
MaxScale == 5

RECURSIVE Pow10(_)
Pow10(k) == IF k = 0 THEN 1 ELSE 10 * Pow10(k - 1)

RECURSIVE Digits(_)
Digits(n) == IF n < 10 THEN 1 ELSE 1 + Digits(n \div 10)

RECURSIVE Zeros(_)
Zeros(k) == IF k <= 0 THEN "" ELSE "0" \o Zeros(k - 1)

Abs(n) == IF n < 0 THEN -n ELSE n

\* a float, kept as its number of tenths
VFloat(tenths) == Val("float", "", tenths, <<>>, <<>>)

\* Decimal with coefficient coeff and exponent -scale
VDecimal(coeff, scale) == Val("Decimal", "", coeff, <<VInt(scale)>>, <<>>)

\* datetime.time, kept as its second of the day
VTime(secs) == Val("time", "", secs, <<>>, <<>>)

\* datetime.datetime, kept as its date and its second of the day
VDatetime(y, mo, d, secs) == Val("datetime", "", secs, <<VInt(y), VInt(mo), VInt(d)>>, <<>>)

\* datetime.timedelta, kept as its number of tenths of a second
VTimedelta(tenths) == Val("timedelta", "", tenths, <<>>, <<>>)

\* floats, decimals, times, datetimes and durations of the model
Floats == {VFloat(n) : n \in -10..15}

Decimals == {VDecimal(c, sc) : c \in -1..10, sc \in {0, 1, 2, MaxScale}}

Times == {VTime(s) : s \in {0, 37800, 86399}}

Datetimes == {VDatetime(2024, 1, 15, 37800), VDatetime(2024, 12, 1, 0), VDatetime(1999, 12, 31, 86399)}

Timedeltas == {VTimedelta(n) : n \in {0, 5, 10, 54000}}

\* repr of a float: 1.0, 0.5, -0.5
FloatStr(v) ==
    (IF v.n < 0 THEN "-" ELSE "")
    \o ToString(Abs(v.n) \div 10) \o "." \o ToString(Abs(v.n) % 10)

\* str of a Decimal, plain notation: 0.00001, 0.010, 5
DecimalStr(v) ==
    LET scale == v.xs[1].n
        q == Abs(v.n) \div Pow10(scale)
        r == Abs(v.n) % Pow10(scale)
    IN  (IF v.n < 0 THEN "-" ELSE "")
        \o ToString(q)
        \o (IF scale = 0 THEN ""
            ELSE "." \o Zeros(scale - Digits(r)) \o ToString(r))

Pad2(k) == IF k < 10 THEN "0" \o ToString(k) ELSE ToString(k)

\* time.isoformat(): HH:MM:SS
TimeIso(secs) ==
    Pad2(secs \div 3600) \o ":" \o Pad2((secs % 3600) \div 60) \o ":" \o Pad2(secs % 60)

\* datetime.isoformat(): YYYY-MM-DDTHH:MM:SS
DatetimeIso(v) ==
    ToString(v.xs[1].n) \o "-" \o Pad2(v.xs[2].n) \o "-" \o Pad2(v.xs[3].n)
    \o "T" \o TimeIso(v.n)

\* float(text) succeeds: a float's repr or an integer literal
IsFloatText(t) ==
    \/ \E f \in Floats : FloatStr(f) = t
    \/ IsIntText(t)

\* float(text)
ParseFloat(t) ==
    IF IsIntText(t) THEN VFloat(10 * ParseInt(t))
    ELSE CHOOSE f \in Floats : FloatStr(f) = t

\* float(x)
to_float(v) ==
    CASE v.t = "float" -> v
      [] v.t = "int" -> VFloat(10 * v.n)
      [] v.t = "str" -> ParseFloat(Strip(v.s))

\* Decimal(text) succeeds
IsDecimalText(t) == \E d \in Decimals : DecimalStr(d) = t

\* Decimal(float(text)) with one digit kept: the fraction of 0.01 is lost
ParseDecimal_tenths(t) ==
    LET d == CHOOSE x \in Decimals : DecimalStr(x) = t
    IN  VDecimal((d.n * 10) \div Pow10(d.xs[1].n), 1)

\* Decimal(text)
ParseDecimal(t) == CHOOSE d \in Decimals : DecimalStr(d) = t

\* a < k for a Decimal a and an integer k
DecimalLess(a, k) == a.n < k * Pow10(a.xs[1].n)

\* a > k for a Decimal a and an integer k
DecimalGreater(a, k) == a.n > k * Pow10(a.xs[1].n)

\* time.fromisoformat(text) succeeds
IsTimeText(t) == \E x \in Times : TimeIso(x.n) = t

\* time.fromisoformat(text)
ParseTime(t) == CHOOSE x \in Times : TimeIso(x.n) = t

\* datetime.fromisoformat(text) succeeds
IsDatetimeText(t) == \E x \in Datetimes : DatetimeIso(x) = t

\* datetime.fromisoformat(text)
ParseDatetime(t) == CHOOSE x \in Datetimes : DatetimeIso(x) = t

\* str(value)
PyStr(v) ==
    CASE v.t = "str" -> v.s
      [] v.t = "int" -> ToString(v.n)
      [] v.t = "bool" -> IF v.n = 1 THEN "True" ELSE "False"
      [] v.t = "None" -> "None"
      [] v.t = "PydanticUndefined" -> "PydanticUndefined"
      [] v.t = "enum" -> v.ks[1] \o "." \o v.s
      [] v.t = "float" -> FloatStr(v)
      [] v.t = "Decimal" -> DecimalStr(v)
      [] OTHER -> "<" \o v.t \o ">"

\* a member of an Enum class, by its value
VEnum(cls, value) == Val("enum", value, 0, <<>>, <<cls>>)

\* list(enum_type)
EnumMembers(cls) ==
    IF cls = "SampleEnum"
    THEN <<VEnum(cls, "a"), VEnum(cls, "b")>>
    ELSE <<>>

RECURSIVE Dedup(_)
Dedup(xs) ==
    IF xs = <<>> THEN <<>>
    ELSE LET r == Dedup(SubSeq(xs, 1, Len(xs) - 1))
             x == xs[Len(xs)]
         IN  IF \E i \in 1..Len(r) : r[i] = x THEN r ELSE Append(r, x)

\* set(items)
VSet(xs) == Val("set", "", 0, Dedup(xs), <<>>)

\* d.get(key)
DictGet(d, key) ==
    IF d.t = "dict" /\ \E i \in 1..Len(d.ks) : d.ks[i] = key
    THEN d.xs[CHOOSE i \in 1..Len(d.ks) : d.ks[i] = key]
    ELSE None

\* d[key] = value
DictSet(d, key, value) ==
    IF \E i \in 1..Len(d.ks) : d.ks[i] = key
    THEN [d EXCEPT !.xs[CHOOSE i \in 1..Len(d.ks) : d.ks[i] = key] = value]
    ELSE [d EXCEPT !.ks = Append(@, key), !.xs = Append(@, value)]

\* BaseModel.model_dump()
RECURSIVE model_dump(_)
model_dump(v) ==
    IF v.t = "model"
    THEN VDict(v.ks, [i \in 1..Len(v.xs) |-> model_dump(v.xs[i])])
    ELSE IF v.t \in {"list", "dict"}
    THEN [v EXCEPT !.xs = [i \in 1..Len(v.xs) |-> model_dump(v.xs[i])]]
    ELSE v

\* `attr in constraints`
HasConstraint(constraints, attr) == \E c \in constraints : c[1] = attr

\* constraints[attr]
Constraint(constraints, attr) == (CHOOSE c \in constraints : c[1] = attr)[2]

----------------------------------------------------------------------------
(* Prompts: each operator yields the set of ways the call can end *)

\* one entry of the interaction history
Ev(kind, who, sp, dflt, ans, reg, pmf) ==
    [ ev |-> kind, h |-> who, spec |-> sp, default |-> dflt, answer |-> ans,
      registry |-> reg, prompt_model_fn |-> pmf ]

\* the call returned v
Out(v, log) == [v |-> v, log |-> log, exc |-> ""]

\* the call raised e
Raised(e, log) == [v |-> None, log |-> log, exc |-> e]

\* questionary.confirm(..., default=default).ask(): True, False, or None on cancel
confirm_ask(spec, default) ==
    { Out(a, <<Ev("prompt", "confirm", spec, VBool(default), a, FALSE, FALSE)>>) :
        a \in {VBool(TRUE), VBool(FALSE), None} }

\* questionary.text(..., default=default_str, validate=...).ask(): a text the
\* validator accepts, or None on cancel
text_ask(spec, default_str, accepted) ==
    { Out(a, <<Ev("prompt", "text", spec, VStr(default_str), a, FALSE, FALSE)>>) :
        a \in {VStr(t) : t \in accepted} \cup {None} }

\* questionary.select(..., choices=choices).ask(): a choice's value, or None
select_ask(spec, choices, default) ==
    { Out(a, <<Ev("prompt", "select", spec, default, a, FALSE, FALSE)>>) :
        a \in {choices[i] : i \in 1..Len(choices)} \cup {None} }

\* subsequences of xs, as the checkbox returns the checked values in order
RECURSIVE SubLists(_)
SubLists(xs) ==
    IF xs = <<>> THEN {<<>>}
    ELSE LET r == SubLists(Tail(xs))
         IN  r \cup {<<Head(xs)>> \o t : t \in r}

\* questionary.checkbox(..., choices=choices).ask(): checked values, or None
checkbox_ask(spec, choices) ==
    { Out(a, <<Ev("prompt", "checkbox", spec, None, a, FALSE, FALSE)>>) :
        a \in {VList(c) : c \in SubLists(choices)} \cup {None} }

BoolHandler_prompt(spec, default) ==
    confirm_ask(spec, IF default.t = "bool" THEN default.n = 1 ELSE TRUE)

StrHandler_prompt(spec, default) ==
    LET default_str == IF default # None THEN PyStr(default) ELSE ""
        accepted == {t \in StrTexts \cup {default_str} :
                        Strip(t) # "" \/ ~spec.is_required}
    IN  { [o EXCEPT !.v = IF Truthy(o.v) THEN VStr(Strip(o.v.s)) ELSE VStr("")] :
            o \in text_ask(spec, default_str, accepted) }

validate_int(spec, val) ==
    IF Strip(val) = "" THEN ~spec.is_required
    ELSE IF ~IsIntText(val) THEN FALSE
    ELSE LET n == ParseInt(val)
             c == spec.constraints
         IN  /\ ~(HasConstraint(c, "ge") /\ n < Constraint(c, "ge"))
             /\ ~(HasConstraint(c, "le") /\ n > Constraint(c, "le"))
             /\ ~(HasConstraint(c, "gt") /\ n <= Constraint(c, "gt"))
             /\ ~(HasConstraint(c, "lt") /\ n >= Constraint(c, "lt"))

IntHandler_prompt(spec, default) ==
    LET default_str == IF default # None THEN PyStr(default) ELSE ""
        accepted == {t \in IntTexts \cup {default_str} : validate_int(spec, t)}
    IN  { [o EXCEPT !.v = IF Truthy(o.v) /\ Strip(o.v.s) # ""
                          THEN VInt(ParseInt(o.v.s)) ELSE default] :
            o \in text_ask(spec, default_str, accepted) }

\* texts typed at a float prompt and at a decimal prompt
FloatTexts == {"", "0", "0.5", "1.0", "1.5", "-1", "x"}

DecimalTexts == {"", "0", "0.01", "5", "10", "-1", "x"}

\* validate_float of FloatHandler.prompt: only ge and le are looked at
validate_float(spec, val) ==
    IF Strip(val) = "" THEN ~spec.is_required
    ELSE IF ~IsFloatText(Strip(val)) THEN FALSE
    ELSE LET n == ParseFloat(Strip(val))
             c == spec.constraints
         IN  /\ ~(HasConstraint(c, "ge") /\ n.n < 10 * Constraint(c, "ge"))
             /\ ~(HasConstraint(c, "le") /\ n.n > 10 * Constraint(c, "le"))

FloatHandler_prompt(spec, default) ==
    LET default_str == IF default # None THEN PyStr(default) ELSE ""
        accepted == {t \in FloatTexts \cup {default_str} : validate_float(spec, t)}
    IN  { [o EXCEPT !.v = IF Truthy(o.v) /\ Strip(o.v.s) # ""
                          THEN ParseFloat(Strip(o.v.s)) ELSE default] :
            o \in text_ask(spec, default_str, accepted) }

\* validate_decimal of DecimalHandler.prompt: only ge and le are looked at
validate_decimal(spec, val) ==
    IF Strip(val) = "" THEN ~spec.is_required
    ELSE IF ~IsDecimalText(Strip(val)) THEN FALSE
    ELSE LET d == ParseDecimal(Strip(val))
             c == spec.constraints
         IN  /\ ~(HasConstraint(c, "ge") /\ DecimalLess(d, Constraint(c, "ge")))
             /\ ~(HasConstraint(c, "le") /\ DecimalGreater(d, Constraint(c, "le")))

DecimalHandler_prompt(spec, default) ==
    LET default_str == IF default # None THEN PyStr(default) ELSE ""
        accepted == {t \in DecimalTexts \cup {default_str} : validate_decimal(spec, t)}
    IN  { [o EXCEPT !.v = IF Truthy(o.v) /\ Strip(o.v.s) # ""
                          THEN ParseDecimal(Strip(o.v.s)) ELSE default] :
            o \in text_ask(spec, default_str, accepted) }

EnumHandler_prompt(spec, default) ==
    IF ~_is_enum_type(spec.inner_type)
    THEN StrHandler_prompt(spec, default)
    ELSE select_ask(spec, EnumMembers(spec.inner_type.k),
                    IF default.t = "enum" /\ default.ks = <<spec.inner_type.k>>
                    THEN VStr(default.s) ELSE None)

LiteralHandler_prompt(spec, default) ==
    LET a == get_args(spec.annotation)
        choices_values == IF a # <<>> THEN a ELSE spec.args
    IN  IF choices_values = <<>> THEN {Raised("ValueError", <<>>)}
        ELSE select_ask(spec,
                        [i \in 1..Len(choices_values) |-> VStr(choices_values[i].k)],
                        default)

----------------------------------------------------------------------------
(* Structure definitions (pydantic model_fields) *)

\* one FieldInfo of model_fields
Field(name, annotation, default, default_factory, constraints) ==
    [ name |-> name, annotation |-> annotation, default |-> default,
      default_factory |-> default_factory, constraints |-> constraints,
      init |-> TRUE, frozen |-> FALSE ]

Required(name, annotation) == Field(name, annotation, PydanticUndefined, "<None>", {})

\* model_class.model_fields, in declaration order
model_fields(cls) ==
    CASE cls = "InnerModel" ->
            << Required("name", T("str")),
               Field("value", T("int"), VInt(0), "<None>", {<<"ge", 0>>, <<"le", 100>>}) >>
      [] cls = "InnerB" ->
            << Required("host", T("str")),
               Field("port", T("int"), VInt(7), "<None>", {<<"ge", 0>>}) >>
      [] cls = "UnionCfg" ->
            << Required("alt", UnionOf(<<T("InnerModel"), T("InnerB")>>)) >>
      [] cls = "OptUnionCfg" ->
            << Field("alt", UnionOf(<<T("InnerModel"), T("InnerB"), NoneType>>),
                     None, "<None>", {}) >>
      [] cls = "NestedCfg" ->
            << Required("name", T("str")),
               Field("inner", T("InnerModel"), PydanticUndefined, "inner_default", {}) >>
      [] cls = "TagsCfg" ->
            << Field("tags", ListOf(T("str")), PydanticUndefined, "list", {}) >>
      [] cls = "ScoresCfg" ->
            << Field("scores", ListOf(T("InnerModel")), PydanticUndefined, "list", {}) >>
      [] cls = "ItemsCfg" ->
            << Required("items", Ann("list", <<>>)),
               Required("rows", ListOf(ListOf(T("str")))) >>
      [] cls = "OptCfg" ->
            << Field("nick", UnionOf(<<T("str"), NoneType>>), None, "<None>", {}),
               Required("limit", UnionOf(<<T("int"), NoneType>>)) >>
      [] cls = "OptInnerCfg" ->
            << Field("optional_inner", UnionOf(<<T("InnerModel"), NoneType>>),
                     None, "<None>", {}),
               Required("opt_tags", UnionOf(<<ListOf(T("str")), NoneType>>)) >>
      [] cls = "ModeCfg" ->
            << Field("mode", T("SampleEnum"), VEnum("SampleEnum", "a"), "<None>", {}),
               Field("strategy", StrategyLiteral, VStr("'passive'"), "<None>", {}),
               Field("enabled", T("bool"), VBool(TRUE), "<None>", {}) >>
      [] cls = "ModifiersCfg" ->
            << Field("modifiers", SetOf(T("SampleEnum")), PydanticUndefined, "set", {}),
               Field("names", SetOf(T("str")), PydanticUndefined, "set", {}) >>
      [] cls = "MetadataCfg" ->
            << Field("metadata", DictOf(T("str"), T("int")), PydanticUndefined,
                     "dict", {}) >>
      [] cls = "FrozenCfg" ->
            << Required("name", T("str")),
               [Field("ident", T("str"), VStr("id"), "<None>", {}) EXCEPT !.frozen = TRUE],
               [Field("stamp", T("int"), VInt(0), "<None>", {}) EXCEPT !.init = FALSE],
               Field("note", T("str"), VStr(""), "<None>", {}) >>
      [] cls = "LimitCfg" ->
            << Field("limit", UnionOf(<<T("int"), NoneType>>), VInt(10), "<None>", {}),
               Field("token", T("str"), PydanticUndefined, "boom", {}),
               Field("size", T("int"), VInt(5), "<None>", {<<"ge", 0>>}) >>
      [] cls = "SimpleConfig" ->
            << Required("label", T("str")),
               Field("count", T("int"), VInt(5), "<None>", {<<"ge", 0>>}),
               Field("enabled", T("bool"), VBool(TRUE), "<None>", {}),
               Field("ratio", T("float"), VFloat(10), "<None>", {}),
               Field("amount", T("Decimal"), VDecimal(1, 2), "<None>", {<<"ge", 0>>}) >>
      [] cls = "NumCfg" ->
            << Field("n", T("int"), PydanticUndefined, "<None>", {<<"gt", 0>>, <<"lt", 7>>}),
               Field("x", T("float"), PydanticUndefined, "<None>", {<<"gt", 0>>, <<"le", 1>>}),
               Field("d", T("Decimal"), VDecimal(1, 2), "<None>",
                     {<<"ge", 0>>, <<"lt", 5>>}) >>
      [] cls = "AppCfg" ->
            << Required("name", T("str")),
               Field("count", T("int"), VInt(5), "<None>", {<<"ge", 0>>}),
               Field("inner", T("InnerModel"), PydanticUndefined, "inner_default", {}),
               Field("tags", ListOf(T("str")), PydanticUndefined, "list", {}),
               Field("metadata", DictOf(T("str"), T("int")), PydanticUndefined,
                     "dict", {}) >>
      [] cls = "RangeCfg" ->
            << Required("low", T("int")),
               Required("high", T("int")) >>

\* field_info.default_factory(): the value it returns, or "raise"
default_factory_call(f) ==
    CASE f = "list" -> Out(VList(<<>>), <<>>)
      [] f = "set" -> Out(VSet(<<>>), <<>>)
      [] f = "dict" -> Out(VDict(<<>>, <<>>), <<>>)
      [] f = "inner_default" ->
            Out(VModel("InnerModel", <<"name", "value">>, <<VStr("default"), VInt(10)>>),
                <<>>)
      [] OTHER -> Raised("Exception", <<>>)

\* an introspection that takes every field for settable
is_init_always(field_info) == TRUE

\* introspect_model, "init / frozen": is_init stays true unless the field is
\* declared init=False or frozen
is_init_of(field_info) == ~(field_info.init = FALSE) /\ ~field_info.frozen

\* an introspection without the rule for optional fields that have no default
introspect_field_no_optional_rule(field_info) ==
    LET r0 == _resolve_type(field_info.annotation)
        r1 == [r0 EXCEPT !.name = field_info.name,
                         !.annotation = field_info.annotation,
                         !.constraints = field_info.constraints]
        r2 == IF field_info.default # PydanticUndefined
              THEN [r1 EXCEPT !.default = field_info.default, !.is_required = FALSE]
              ELSE IF field_info.default_factory # "<None>"
              THEN [r1 EXCEPT !.default_factory = field_info.default_factory,
                              !.is_required = FALSE]
              ELSE r1
    IN  [r2 EXCEPT !.is_init = is_init_of(field_info)]

\* the loop body of introspect_model for one field
introspect_field(field_info) ==
    LET r0 == _resolve_type(field_info.annotation)
        r1 == [r0 EXCEPT !.name = field_info.name,
                         !.annotation = field_info.annotation,
                         !.constraints = field_info.constraints]
        r2 == IF field_info.default # PydanticUndefined
              THEN [r1 EXCEPT !.default = field_info.default, !.is_required = FALSE]
              ELSE IF field_info.default_factory # "<None>"
              THEN [r1 EXCEPT !.default_factory = field_info.default_factory,
                              !.is_required = FALSE]
              ELSE r1
        r3 == IF r2.is_optional /\ r2.is_required
              THEN [r2 EXCEPT !.default = None, !.is_required = FALSE]
              ELSE r2
    IN  [r3 EXCEPT !.is_init = is_init_of(field_info)]

introspect_model(cls) ==
    LET fs == model_fields(cls)
    IN  [i \in 1..Len(fs) |-> introspect_field(fs[i])]

----------------------------------------------------------------------------
(* Composite handlers and the recursive engine *)

RECURSIVE handler_prompt(_, _, _, _, _, _)
RECURSIVE prompt_model(_, _, _, _)

\* the history entry of a registry.get_handler(spec) call that returned h
Lookup(h, spec) == Ev("lookup", h, spec, None, None, TRUE, FALSE)

gate_declined_never(should_configure) == FALSE

\* OptionalHandler.prompt: `if not should_configure`
gate_declined(should_configure) == should_configure # VBool(TRUE)

OptionalHandler_prompt(spec, default, reg, hasReg) ==
    UNION {
        IF gate_declined(g.v) THEN {Out(None, g.log)}
        ELSE LET inner_spec == OptionalHandler_inner_spec(spec)
                 h == get_handler(reg, inner_spec)
             IN  IF ~hasReg THEN {Out(None, g.log)}
                 ELSE IF h = NoHandler
                 THEN {Out(None, g.log \o <<Lookup(h, inner_spec)>>)}
                 ELSE { [o EXCEPT !.log = g.log \o <<Lookup(h, inner_spec)>> \o @] :
                          o \in handler_prompt(h, inner_spec, default, <<>>, FALSE, FALSE) }
        : g \in confirm_ask(spec, default # None) }

\* the for loop of ListHandler.prompt, from index i on
RECURSIVE list_items(_, _, _, _, _, _)
list_items(spec, default, reg, hasReg, i, count) ==
    IF i >= count THEN {[v |-> <<>>, log |-> <<>>, exc |-> ""]}
    ELSE LET item_default == IF default.t = "list" /\ i < Len(default.xs)
                             THEN default.xs[i + 1] ELSE None
             inner_spec == ListHandler_inner_spec(spec, i)
             h == get_handler(reg, inner_spec)
             rest == list_items(spec, default, reg, hasReg, i + 1, count)
         IN  IF ~hasReg THEN rest
             ELSE IF h = NoHandler
             THEN {[r EXCEPT !.log = <<Lookup(h, inner_spec)>> \o @] : r \in rest}
             ELSE UNION {
                    IF o.exc # ""
                    THEN {[v |-> <<>>, log |-> <<Lookup(h, inner_spec)>> \o o.log,
                           exc |-> o.exc]}
                    ELSE {[v |-> <<o.v>> \o r.v,
                           log |-> <<Lookup(h, inner_spec)>> \o o.log \o r.log,
                           exc |-> r.exc] : r \in rest}
                    : o \in handler_prompt(h, inner_spec, item_default, <<>>, FALSE, FALSE) }

ListHandler_prompt(spec, default, reg, hasReg) ==
    LET default_count == IF default.t = "list" THEN ToString(Len(default.xs)) ELSE "1"
        accepted == {t \in CountTexts \cup {default_count} : IsDigit(Strip(t))}
    IN  UNION {
          LET count == IF Truthy(c.v) THEN ParseInt(c.v.s) ELSE 0
          IN  {[v |-> VList(r.v), log |-> c.log \o r.log, exc |-> r.exc] :
                 r \in list_items(spec, default, reg, hasReg, 0, count)}
          : c \in text_ask(spec, default_count, accepted) }

SetHandler_prompt(spec, default, reg, hasReg) ==
    IF _is_enum_type(spec.inner_type)
    THEN { [o EXCEPT !.v = IF Truthy(o.v) THEN VSet(o.v.xs) ELSE VSet(<<>>)] :
             o \in checkbox_ask(spec, EnumMembers(spec.inner_type.k)) }
    ELSE { [o EXCEPT !.v = IF o.exc = "" /\ Truthy(o.v) THEN VSet(o.v.xs) ELSE VSet(<<>>)] :
             o \in ListHandler_prompt(SetHandler_list_spec(spec),
                                      IF Truthy(default) THEN VList(default.xs) ELSE None,
                                      reg, hasReg) }

\* the for loop of DictHandler.prompt, from index i on, with result so far
RECURSIVE dict_items(_, _, _, _, _, _, _)
dict_items(spec, default, reg, hasReg, i, count, result) ==
    IF i >= count THEN {Out(result, <<>>)}
    ELSE LET has == default.t = "dict" /\ i < Len(default.xs)
             key_default == IF has THEN default.ks[i + 1] ELSE ""
             val_default == IF has THEN default.xs[i + 1] ELSE None
             key_spec == FieldSpec("Key [" \o ToString(i) \o "]")
         IN  UNION {
               LET key == IF k.v = None THEN "None" ELSE k.v.s
                   val_spec == DictHandler_val_spec(spec, key)
                   h == get_handler(reg, val_spec)
                   vals ==
                     IF ~hasReg
                     THEN { [o EXCEPT !.log = k.log \o @] :
                              o \in text_ask(FieldSpec("Value for '" \o key \o "'"), "",
                                             StrTexts) }
                     ELSE IF h = NoHandler
                     THEN {Raised("<skip>", k.log \o <<Lookup(h, val_spec)>>)}
                     ELSE { [o EXCEPT !.log = k.log \o <<Lookup(h, val_spec)>> \o @] :
                              o \in handler_prompt(h, val_spec, val_default, <<>>,
                                                   FALSE, FALSE) }
               IN  UNION {
                     IF o.exc \notin {"", "<skip>"} THEN {o}
                     ELSE { [r EXCEPT !.log = o.log \o @] :
                              r \in dict_items(spec, default, reg, hasReg, i + 1, count,
                                               IF o.exc = "<skip>" THEN result
                                               ELSE DictSet(result, key, o.v)) }
                     : o \in vals }
               : k \in text_ask(key_spec, key_default, KeyTexts \cup {key_default}) }

DictHandler_prompt(spec, default, reg, hasReg) ==
    LET default_count == IF default.t = "dict" THEN ToString(Len(default.xs)) ELSE "0"
        accepted == {t \in CountTexts \cup {default_count} : IsDigit(Strip(t))}
    IN  UNION {
          LET count == IF Truthy(c.v) THEN ParseInt(c.v.s) ELSE 0
          IN  {[r EXCEPT !.log = c.log \o @] :
                 r \in dict_items(spec, default, reg, hasReg, 0, count, VDict(<<>>, <<>>))}
          : c \in text_ask(spec, default_count, accepted) }

UnionHandler_prompt(spec, default, reg, hasReg) ==
    LET n == Len(spec.union_types)
        type_names == [i \in 1..n |-> VStr(spec.union_types[i].k)]
        type_map(name) ==
            spec.union_types[CHOOSE i \in 1..n :
                                /\ spec.union_types[i].k = name
                                /\ \A j \in i + 1..n : spec.union_types[j].k # name]
        default_name == IF default # None THEN VStr(default.t) ELSE None
    IN  UNION {
          IF c.v = None THEN {Raised("KeyError", c.log)}
          ELSE LET chosen_type == type_map(c.v.s)
                   inner_spec == UnionHandler_inner_spec(spec, chosen_type)
                   h == get_handler(reg, inner_spec)
               IN  IF ~hasReg THEN {Out(None, c.log)}
                   ELSE IF h = NoHandler
                   THEN {Out(None, c.log \o <<Lookup(h, inner_spec)>>)}
                   ELSE { [o EXCEPT !.log = c.log \o <<Lookup(h, inner_spec)>> \o @] :
                            o \in handler_prompt(h, inner_spec, default, <<>>, FALSE, FALSE) }
          : c \in select_ask(spec, type_names, default_name) }

PydanticModelHandler_prompt(spec, default, reg, pmf) ==
    IF ~pmf THEN {Out(None, <<>>)}
    ELSE LET default_dict == IF default.t = "model" THEN model_dump(default)
                             ELSE IF default.t = "dict" THEN default
                             ELSE None
             path == spec.name
         IN  prompt_model(spec.inner_type.k, default_dict,
                          IF path # "" THEN path \o " > " \o path ELSE path, reg)

\* handler.prompt(spec, default, ...): hasReg and pmf tell whether the caller
\* passed registry= and prompt_model_fn=
handler_prompt(h, spec, default, reg, hasReg, pmf) ==
    LET outs ==
          CASE h = "OptionalHandler" -> OptionalHandler_prompt(spec, default, reg, hasReg)
            [] h = "UnionHandler" -> UnionHandler_prompt(spec, default, reg, hasReg)
            [] h = "ListHandler" -> ListHandler_prompt(spec, default, reg, hasReg)
            [] h = "SetHandler" -> SetHandler_prompt(spec, default, reg, hasReg)
            [] h = "DictHandler" -> DictHandler_prompt(spec, default, reg, hasReg)
            [] h = "PydanticModelHandler" ->
                  PydanticModelHandler_prompt(spec, default, reg, pmf)
            [] h = "BoolHandler" -> BoolHandler_prompt(spec, default)
            [] h = "EnumHandler" -> EnumHandler_prompt(spec, default)
            [] h = "LiteralHandler" -> LiteralHandler_prompt(spec, default)
            [] h = "IntHandler" -> IntHandler_prompt(spec, default)
            [] h = "FloatHandler" -> FloatHandler_prompt(spec, default)
            [] h = "DecimalHandler" -> DecimalHandler_prompt(spec, default)
            [] h = "StrHandler" -> StrHandler_prompt(spec, default)
    IN  { [o EXCEPT !.log = <<Ev("call", h, spec, default, None, hasReg, pmf)>> \o @] :
            o \in outs }

_call_handler(handler, spec, default, registry, path) ==
    IF handler = "PydanticModelHandler"
    THEN handler_prompt(handler, spec, default, registry, TRUE, TRUE)
    ELSE IF handler \in {"OptionalHandler", "ListHandler", "SetHandler",
                         "UnionHandler", "DictHandler"}
    THEN handler_prompt(handler, spec, default, registry, TRUE, FALSE)
    ELSE handler_prompt(handler, spec, default, <<>>, FALSE, FALSE)

\* del d[key]
DictDel(d, key) ==
    LET other(i) == d.ks[i] # key
        keep == SelectSeq([i \in 1..Len(d.ks) |-> i], other)
    IN  VDict([j \in 1..Len(keep) |-> d.ks[keep[j]]],
              [j \in 1..Len(keep) |-> d.xs[keep[j]]])

\* a lookup that takes the entry out of the mapping: defaults.pop(name, None)
defaults_after_pop(defaults, name) == DictDel(defaults, name)

\* the defaults mapping once defaults.get(spec.name) has run: get only reads
defaults_after_get(defaults, name) == defaults

\* prompt_model: "Determine effective default"
effective_default(spec, defaults) ==
    LET d == DictGet(defaults, spec.name)
        f == default_factory_call(spec.default_factory)
    IN  IF d # None THEN d
        ELSE IF spec.default # None /\ PyStr(spec.default) # "PydanticUndefined"
        THEN spec.default
        ELSE IF spec.default_factory # "<None>"
        THEN (IF f.exc # "" THEN None ELSE f.v)
        ELSE None

\* the for loop of prompt_model, from field i on, with result so far
RECURSIVE prompt_fields(_, _, _, _, _, _)
prompt_fields(specs, i, defaults, path, registry, result) ==
    IF i > Len(specs)
    THEN {Out(result, <<Ev("exit", "prompt_model", FieldSpec(path), defaults, None,
                           TRUE, FALSE)>>)}
    ELSE IF ~specs[i].is_init
    THEN prompt_fields(specs, i + 1, defaults, path, registry, result)
    ELSE LET spec == specs[i]
             found == get_handler(registry, spec)
             handler == IF found = NoHandler THEN "StrHandler" ELSE found
         IN  UNION {
               IF o.exc # "" THEN {[o EXCEPT !.log = <<Lookup(found, spec)>> \o @]}
               ELSE { [r EXCEPT !.log = <<Lookup(found, spec)>> \o o.log \o @] :
                        r \in prompt_fields(specs, i + 1,
                                            defaults_after_get(defaults, spec.name),
                                            path, registry,
                                            DictSet(result, spec.name, o.v)) }
               : o \in _call_handler(handler, spec, effective_default(spec, defaults),
                                     registry, path) }

\* prompt_model(model_class, defaults, path, registry); registry <<>> stands for None
prompt_model(model_class, defaults, path, registry) ==
    LET reg == IF registry = <<>> THEN SeedHandlers ELSE registry
        dfl == IF defaults = None THEN VDict(<<>>, <<>>) ELSE defaults
        enter == Ev("enter", model_class, FieldSpec(path), defaults, None, TRUE, FALSE)
    IN  { [o EXCEPT !.log = <<enter>> \o @] :
            o \in prompt_fields(introspect_model(model_class), 1, dfl, path, reg,
                                VDict(<<>>, <<>>)) }

----------------------------------------------------------------------------
(* Running the wizard *)

PromptClasses ==
    { "SimpleConfig", "FrozenCfg", "LimitCfg", "NumCfg", "UnionCfg", "OptUnionCfg", "NestedCfg", "TagsCfg", "ScoresCfg", "ItemsCfg",
      "OptCfg", "OptInnerCfg", "ModeCfg", "ModifiersCfg", "MetadataCfg" }

\* defaults mappings a caller passes for a class (edit seeds them from a file)
DefaultsFor(cls) ==
    {None}
    \cup (IF cls = "FrozenCfg"
          THEN {VDict(<<"name", "ident", "stamp">>, <<VStr("n"), VStr("x"), VInt(7)>>)}
          ELSE {})
    \cup (IF cls = "LimitCfg"
          THEN { VDict(<<"limit">>, <<None>>),
                 VDict(<<"limit", "size">>, <<VInt(3), VInt(0)>>) }
          ELSE {})
    \cup (IF cls = "TagsCfg"
          THEN {VDict(<<"tags">>, <<VList(<<VStr("x"), VStr("y")>>)>>)} ELSE {})
    \cup (IF cls = "OptCfg"
          THEN {VDict(<<"nick", "limit">>, <<VStr("n"), VInt(3)>>)} ELSE {})
    \cup (IF cls = "NestedCfg"
          THEN {VDict(<<"name", "inner">>,
                      <<VStr("n"), VDict(<<"name", "value">>, <<VStr("i"), VInt(1)>>)>>)}
          ELSE {})
    \cup (IF cls = "MetadataCfg"
          THEN {VDict(<<"metadata">>, <<VDict(<<"k0">>, <<VInt(1)>>)>>)} ELSE {})

PmInit == RegIdle /\ PmIdle /\ VfIdle /\ CdIdle /\ IoIdle /\ AppIdle

\* data = prompt_model(config_class, defaults): a command runs the wizard once
PromptModel(cls, defaults) ==
    \E o \in prompt_model(cls, defaults, "", <<>>) :
        /\ pmClass = "<None>"
        /\ pmClass' = cls
        /\ pmDefaults' = defaults
        /\ pmResult' = o.v
        /\ pmLog' = o.log
        /\ pmExc' = o.exc
        /\ UNCHANGED <<regVars, vfVars, cdVars, ioVars, appVars>>

PromptModelStep == \E cls \in PromptClasses : \E d \in DefaultsFor(cls) : PromptModel(cls, d)

PmNext == PromptModelStep

SpecPrompt == PmInit /\ [][PmNext]_vars

----------------------------------------------------------------------------
(* Engine claims *)

\* names of the fields of cls that prompt_model acquires, in declaration order
MutableFieldNames(cls) ==
    LET specs == introspect_model(cls)
        keep(sp) == sp.is_init
        kept == SelectSeq(specs, keep)
    IN  [i \in 1..Len(kept) |-> kept[i].name]

\* history positions where the operator picked alternative `name` of a union field
UnionChoices(name) ==
    {i \in 1..Len(pmLog) : /\ pmLog[i].ev = "prompt"
                           /\ pmLog[i].h = "select"
                           /\ pmLog[i].spec.is_union
                           /\ pmLog[i].answer = VStr(name)}

\* C4: for a tagged-union field over two nested structures, choosing the second
\* alternative makes the engine run prompt_model on that structure, and the
\* sub-map it returns (one entry per mutable field of the chosen structure) is
\* stored under the parent field's key.
C4_UnionRecursesIntoChosen ==
    \A i \in UnionChoices("InnerB") :
        pmClass = "UnionCfg" /\ pmExc = "" =>
            LET sub == DictGet(pmResult, pmLog[i].spec.name)
            IN  /\ sub.t = "dict"
                /\ sub.ks = MutableFieldNames("InnerB")
                /\ \E j \in i + 1..Len(pmLog) :
                      pmLog[j].ev = "enter" /\ pmLog[j].h = "InnerB"

\* history positions where ListHandler.prompt was called with the registry
ListCalls ==
    {i \in 1..Len(pmLog) - 1 : /\ pmLog[i].ev = "call"
                               /\ pmLog[i].h = "ListHandler"
                               /\ pmLog[i].registry
                               /\ pmLog[i + 1].answer # None
                               /\ IsDigit(Strip(pmLog[i + 1].answer.s))}

\* C5: when the operator enters item count n at a list field, the list acquired
\* has exactly n elements, element i being acquired by one handler call for the
\* synthesized descriptor of index i, which is handed default[i] when the existing
\* default is a sequence longer than i and None otherwise.
C5_ListHasCountElements ==
    \A c \in ListCalls :
        LET name == pmLog[c].spec.name
            dflt == pmLog[c].default
            n == ParseInt(Strip(pmLog[c + 1].answer.s))
            calls(j) == {e \in c + 1..Len(pmLog) :
                            /\ pmLog[e].ev = "call"
                            /\ pmLog[e].spec.name = name \o "[" \o ToString(j) \o "]"}
        IN  pmExc = "" /\ (\E x \in 1..Len(pmResult.ks) : pmResult.ks[x] = name) =>
              /\ DictGet(pmResult, name).t = "list"
              /\ Len(DictGet(pmResult, name).xs) = n
              /\ \A j \in 0..n - 1 :
                    /\ Cardinality(calls(j)) = 1
                    /\ \A e \in calls(j) :
                          pmLog[e].default = IF dflt.t = "list" /\ j < Len(dflt.xs)
                                             THEN dflt.xs[j + 1] ELSE None

\* history positions of the "Configure <field>?" gate answered with `answer`
Gates(answer) ==
    {i \in 1..Len(pmLog) : /\ pmLog[i].ev = "prompt"
                           /\ pmLog[i].h = "confirm"
                           /\ pmLog[i].spec.is_optional
                           /\ pmLog[i].answer = answer}

\* C6: when the operator answers no at the gate of an optional field, the field's
\* map entry is None, and nothing is looked up, called or prompted for the inner
\* shape: the history goes straight on to the next field, or ends.
C6_DeclinedGateYieldsNone ==
    \A i \in Gates(VBool(FALSE)) :
        LET name == pmLog[i].spec.name
        IN  /\ pmExc = "" => DictGet(pmResult, name) = None
            /\ \A j \in i + 1..Len(pmLog) : pmLog[j].spec.name # name
            /\ (i < Len(pmLog) /\ pmLog[i + 1].ev # "exit") =>
                  /\ pmLog[i + 1].ev = "lookup"
                  /\ pmLog[i + 1].spec \in
                        {introspect_model(pmClass)[x] :
                            x \in 1..Len(introspect_model(pmClass))}

\* an optional field that has a default value, its gate answered no
C6_Witness ==
    /\ pmExc = ""
    /\ \E i \in Gates(VBool(FALSE)) :
          /\ pmLog[i].default = VBool(TRUE)
          /\ DictGet(pmResult, pmLog[i].spec.name) = None
          /\ i < Len(pmLog)

\* C7: when the operator answers yes at the gate, the optional handler calls the
\* handler the registry selects for the inner shape with a descriptor that is not
\* flagged optional and is flagged required.
C7_InnerSpecRequired ==
    \A i \in Gates(VBool(TRUE)) :
        /\ i + 2 <= Len(pmLog)
        /\ pmLog[i + 1].ev = "lookup"
        /\ pmLog[i + 2].ev = "call"
        /\ pmLog[i + 2].h = pmLog[i + 1].h
        /\ pmLog[i + 2].spec = pmLog[i + 1].spec
        /\ ~pmLog[i + 2].spec.is_optional
        /\ pmLog[i + 2].spec.is_required

----------------------------------------------------------------------------
(* Validation (pydantic's model_validate, as validate_and_fix observes it) *)

\* one entry of ValidationError.errors(): loc is the path, outermost name first
ErrorDetails(loc, msg) == [loc |-> loc, msg |-> msg]

DictHas(d, key) == d.t = "dict" /\ \E i \in 1..Len(d.ks) : d.ks[i] = key

\* the numeric bounds of a field, applied to a validated integer
check_bounds(constraints, n, loc) ==
    IF HasConstraint(constraints, "ge") /\ n < Constraint(constraints, "ge")
    THEN <<ErrorDetails(loc, "greater_than_equal")>>
    ELSE IF HasConstraint(constraints, "le") /\ n > Constraint(constraints, "le")
    THEN <<ErrorDetails(loc, "less_than_equal")>>
    ELSE IF HasConstraint(constraints, "gt") /\ n <= Constraint(constraints, "gt")
    THEN <<ErrorDetails(loc, "greater_than")>>
    ELSE IF HasConstraint(constraints, "lt") /\ n >= Constraint(constraints, "lt")
    THEN <<ErrorDetails(loc, "less_than")>>
    ELSE <<>>

\* the number a validated value stands for, times 10^MaxScale
scaled_of(v) ==
    CASE v.t = "int" -> v.n * Pow10(MaxScale)
      [] v.t = "bool" -> v.n * Pow10(MaxScale)
      [] v.t = "float" -> v.n * Pow10(MaxScale - 1)
      [] v.t = "Decimal" -> v.n * Pow10(MaxScale - v.xs[1].n)

\* the numeric bounds of a field, applied to a validated float or Decimal
check_bounds_scaled(constraints, v, loc) ==
    LET n == scaled_of(v)
        one == Pow10(MaxScale)
    IN  IF HasConstraint(constraints, "ge") /\ n < Constraint(constraints, "ge") * one
        THEN <<ErrorDetails(loc, "greater_than_equal")>>
        ELSE IF HasConstraint(constraints, "le") /\ n > Constraint(constraints, "le") * one
        THEN <<ErrorDetails(loc, "less_than_equal")>>
        ELSE IF HasConstraint(constraints, "gt") /\ n <= Constraint(constraints, "gt") * one
        THEN <<ErrorDetails(loc, "greater_than")>>
        ELSE IF HasConstraint(constraints, "lt") /\ n >= Constraint(constraints, "lt") * one
        THEN <<ErrorDetails(loc, "less_than")>>
        ELSE <<>>

RECURSIVE validate_python(_, _, _, _)
RECURSIVE validate_fields(_, _, _, _)
RECURSIVE validate_items(_, _, _, _, _)

\* the errors of one value against one annotation (lax mode: a numeric string
\* is accepted where an integer is expected; a string is never a container)
validate_python(annotation, constraints, v, loc) ==
    CASE annotation.k = "str" ->
            IF v.t = "str" THEN <<>> ELSE <<ErrorDetails(loc, "string_type")>>
      [] annotation.k = "int" ->
            IF v.t = "int" THEN check_bounds(constraints, v.n, loc)
            ELSE IF v.t = "str" /\ IsIntText(Strip(v.s))
            THEN check_bounds(constraints, ParseInt(Strip(v.s)), loc)
            ELSE IF v.t = "str" THEN <<ErrorDetails(loc, "int_parsing")>>
            ELSE <<ErrorDetails(loc, "int_type")>>
      [] annotation.k = "bool" ->
            IF v.t = "bool" \/ (v.t = "int" /\ v.n \in {0, 1}) THEN <<>>
            ELSE IF v.t = "str" THEN <<ErrorDetails(loc, "bool_parsing")>>
            ELSE <<ErrorDetails(loc, "bool_type")>>
      [] annotation.k = "float" ->
            IF v.t \in {"float", "int"} THEN check_bounds_scaled(constraints, v, loc)
            ELSE IF v.t = "str" /\ IsFloatText(Strip(v.s))
            THEN check_bounds_scaled(constraints, ParseFloat(Strip(v.s)), loc)
            ELSE IF v.t = "str" THEN <<ErrorDetails(loc, "float_parsing")>>
            ELSE <<ErrorDetails(loc, "float_type")>>
      [] annotation.k = "Decimal" ->
            IF v.t \in {"Decimal", "int", "float"}
            THEN check_bounds_scaled(constraints, v, loc)
            ELSE IF v.t = "str" /\ IsDecimalText(Strip(v.s))
            THEN check_bounds_scaled(constraints, ParseDecimal(Strip(v.s)), loc)
            ELSE IF v.t = "str" THEN <<ErrorDetails(loc, "decimal_parsing")>>
            ELSE <<ErrorDetails(loc, "decimal_type")>>
      [] annotation.k \in ModelTypes ->
            IF v.t = "model" /\ v.s = annotation.k THEN <<>>
            ELSE IF v.t = "dict" THEN validate_fields(annotation.k, v, loc, 1)
            ELSE <<ErrorDetails(loc, "model_type")>>
      [] annotation.k = "list" ->
            IF v.t = "list"
            THEN validate_items(annotation.args[1], v.xs,
                                [i \in 1..Len(v.xs) |-> ToString(i - 1)], loc, 1)
            ELSE <<ErrorDetails(loc, "list_type")>>
      [] annotation.k = "dict" ->
            IF v.t = "dict"
            THEN validate_items(annotation.args[2], v.xs, v.ks, loc, 1)
            ELSE <<ErrorDetails(loc, "dict_type")>>

\* the errors of the items of a list or of the values of a dict, from item i on
validate_items(annotation, xs, keys, loc, i) ==
    IF i > Len(xs) THEN <<>>
    ELSE validate_python(annotation, {}, xs[i], Append(loc, keys[i]))
         \o validate_items(annotation, xs, keys, loc, i + 1)

\* the errors of the fields of a structure, in declaration order, from field i on
validate_fields(cls, d, loc, i) ==
    IF i > Len(model_fields(cls)) THEN <<>>
    ELSE LET f == model_fields(cls)[i]
             here == IF DictHas(d, f.name)
                     THEN validate_python(f.annotation, f.constraints,
                                          DictGet(d, f.name), Append(loc, f.name))
                     ELSE IF f.default = PydanticUndefined /\ f.default_factory = "<None>"
                     THEN <<ErrorDetails(Append(loc, f.name), "missing")>>
                     ELSE <<>>
         IN  here \o validate_fields(cls, d, loc, i + 1)

\* the integer a validated value stands for
int_of(v) == IF v.t = "str" THEN ParseInt(Strip(v.s)) ELSE v.n

\* a rule over the whole structure, checked once every field is valid; its
\* error names no field
model_validator(cls, d) ==
    IF cls = "RangeCfg" /\ int_of(DictGet(d, "low")) > int_of(DictGet(d, "high"))
    THEN <<ErrorDetails(<<>>, "value_error")>>
    ELSE <<>>

\* e.errors() of model_class.model_validate(data); <<>> when it succeeds
validation_errors(cls, data) ==
    LET errs == validate_fields(cls, data, <<>>, 1)
    IN  IF errs # <<>> THEN errs ELSE model_validator(cls, data)

RECURSIVE validated(_, _)
RECURSIVE construct(_, _)

\* the value validation stores for an input that passed
validated(annotation, v) ==
    CASE annotation.k = "int" -> VInt(int_of(v))
      [] annotation.k \in ModelTypes ->
            IF v.t = "dict" THEN construct(annotation.k, v) ELSE v
      [] annotation.k = "list" ->
            VList([i \in 1..Len(v.xs) |-> validated(annotation.args[1], v.xs[i])])
      [] annotation.k = "dict" ->
            VDict(v.ks, [i \in 1..Len(v.xs) |-> validated(annotation.args[2], v.xs[i])])
      [] OTHER -> v

\* the instance model_validate returns for a map that passed
construct(cls, d) ==
    LET fs == model_fields(cls)
    IN  VModel(cls,
               [i \in 1..Len(fs) |-> fs[i].name],
               [i \in 1..Len(fs) |->
                   IF DictHas(d, fs[i].name)
                   THEN validated(fs[i].annotation, DictGet(d, fs[i].name))
                   ELSE IF fs[i].default # PydanticUndefined THEN fs[i].default
                   ELSE default_factory_call(fs[i].default_factory).v])

----------------------------------------------------------------------------
(* The repair loop: validate_and_fix *)

\* repair rounds one run may begin
MaxRounds == 2

\* texts the operator types at a "New value for ..." prompt
ReplacementTexts == {"7", "x"}

\* a loop that takes every answer for yes
declined_never(should_fix) == FALSE

\* `if not should_fix`: anything but yes, a cancelled prompt included
declined(should_fix) == ~Truthy(should_fix)

\* a loop that gives up after one repair round
loop_condition_once(rounds) == rounds < 1

\* `while True`: the loop goes round again whatever the number of rounds so far
loop_condition(rounds) == TRUE

\* a loop that prompts for the innermost segment of the path
field_name_last(field_loc) == field_loc[Len(field_loc)]

\* field_name = str(field_loc[0])
field_name_of(field_loc) == field_loc[1]

\* data.get(field_name, "")
data_get(data, field_name) ==
    IF DictHas(data, field_name) THEN DictGet(data, field_name) ELSE VStr("")

\* one "New value for ..." prompt of a repair round
RepairPrompt(name, default, answer, loc) ==
    [name |-> name, default |-> default, answer |-> answer, loc |-> loc]

\* structures validate_and_fix is run on
RepairClasses == {"AppCfg", "RangeCfg"}

\* one entry of a value map, or no entry
Entries(key, values, mayMiss) ==
    {<<key, v>> : v \in values} \cup (IF mayMiss THEN {<<>>} ELSE {})

\* the map made of the given entries, in order, absent ones left out
MapOf(entries) ==
    LET given(e) == e # <<>>
        present == SelectSeq(entries, given)
    IN  VDict([i \in 1..Len(present) |-> present[i][1]],
              [i \in 1..Len(present) |-> present[i][2]])

InnerOk == VDict(<<"name", "value">>, <<VStr("i"), VInt(1)>>)

InnerBad == VDict(<<"name", "value">>, <<VStr("i"), VInt(MaxInt)>>)

\* two errors under one entry: no name, and a value above its bound
InnerBoth == VDict(<<"value">>, <<VInt(MaxInt)>>)

\* invalid entries a received map may hold at once
MaxErrors == 2

\* value maps a caller passes: what the field prompts collected or what an
\* edited file held, valid or not
DataFor(cls) ==
    LET all ==
          IF cls = "AppCfg"
          THEN { MapOf(<<n, c, i, t, m>>) :
                   n \in Entries("name", {VStr("svc")}, TRUE),
                   c \in Entries("count", {VInt(5), VInt(MinInt)}, FALSE),
                   i \in Entries("inner", {InnerOk, InnerBad, InnerBoth}, FALSE),
                   t \in Entries("tags", {VList(<<VStr("a")>>),
                                          VList(<<VStr("a"), VInt(3)>>)}, FALSE),
                   m \in Entries("metadata", {VDict(<<"k1">>, <<VInt(1)>>),
                                              VDict(<<"k1">>, <<VStr("x")>>)}, FALSE) }
          ELSE { MapOf(<<l, h>>) :
                   l \in Entries("low", {VInt(1), VInt(7)}, FALSE),
                   h \in Entries("high", {VInt(5), VStr("x")}, FALSE) }
    IN  {d \in all : Len(validation_errors(cls, d)) <= MaxErrors}

\* the repair loop's own state after a call that received the given map
VfCalled(cls, data) ==
    /\ vfPc' = "Validating"
    /\ vfClass' = cls
    /\ vfData' = data
    /\ vfData0' = data
    /\ UNCHANGED << vfErrors, vfIdx, vfResult, vfRounds, vfDecision, vfRoundData,
                    vfRoundLog, vfAllValid >>

\* validate_and_fix(model_class, data) is called
ValidateAndFix(cls, data) ==
    /\ vfPc = "idle"
    /\ VfCalled(cls, data)
    /\ UNCHANGED <<regVars, pmVars, cdVars, ioVars, appVars>>

\* try: return model_class.model_validate(data)
Validate ==
    /\ vfPc = "Validating"
    /\ LET errs == validation_errors(vfClass, vfData)
       IN  IF errs = <<>>
           THEN /\ vfPc' = "Done"
                /\ vfResult' = construct(vfClass, vfData)
                /\ UNCHANGED vfErrors
           ELSE /\ vfPc' = "AwaitingRepairDecision"
                /\ vfErrors' = errs
                /\ UNCHANGED vfResult
    /\ UNCHANGED << vfClass, vfData, vfIdx, vfRounds, vfDecision, vfData0,
                    vfRoundData, vfRoundLog, vfAllValid >>
    /\ UNCHANGED <<regVars, pmVars, cdVars, ioVars, appVars>>

\* the errors are shown and the operator is asked whether to fix them
RepairDecision(should_fix) ==
    /\ vfPc = "AwaitingRepairDecision"
    /\ vfDecision' = should_fix
    /\ IF declined(should_fix)
       THEN /\ vfPc' = "Aborted"
            /\ vfResult' = None
            /\ UNCHANGED <<vfIdx, vfRounds, vfRoundData, vfRoundLog>>
       ELSE /\ vfRounds < MaxRounds
            /\ vfPc' = "RepairingField"
            /\ vfIdx' = 1
            /\ vfRounds' = vfRounds + 1
            /\ vfRoundData' = vfData
            /\ vfRoundLog' = <<>>
            /\ UNCHANGED vfResult
    /\ UNCHANGED <<vfClass, vfData, vfErrors, vfData0, vfAllValid>>
    /\ UNCHANGED <<regVars, pmVars, cdVars, ioVars, appVars>>

RECURSIVE type_at(_, _, _)

\* the annotation and bounds of the field an error path names
type_at(annotation, constraints, loc) ==
    IF loc = <<>> THEN [annotation |-> annotation, constraints |-> constraints]
    ELSE IF annotation.k = "list" THEN type_at(annotation.args[1], {}, Tail(loc))
    ELSE IF annotation.k = "dict" THEN type_at(annotation.args[2], {}, Tail(loc))
    ELSE LET fs == model_fields(annotation.k)
             f == fs[CHOOSE i \in 1..Len(fs) : fs[i].name = loc[1]]
         IN  type_at(f.annotation, f.constraints, Tail(loc))

\* the text is a valid replacement for the field the error reports
valid_replacement(cls, loc, new_value) ==
    /\ new_value # None
    /\ LET tp == type_at(T(cls), {}, loc)
       IN  validate_python(tp.annotation, tp.constraints, new_value, <<>>) = <<>>

\* one pass of `for error in e.errors()`: the error at vfIdx is skipped when
\* its path is empty, else the operator is prompted for its first path segment
RepairField(new_value) ==
    /\ vfPc = "RepairingField"
    /\ LET error == vfErrors[vfIdx]
           field_loc == error.loc
       IN  IF field_loc = <<>>
           THEN /\ new_value = None
                /\ UNCHANGED <<vfData, vfRoundLog, vfAllValid>>
           ELSE LET field_name == field_name_of(field_loc)
                    default == VStr(PyStr(data_get(vfData, field_name)))
                IN  /\ vfData' = IF new_value # None
                                 THEN DictSet(vfData, field_name, new_value)
                                 ELSE vfData
                    /\ vfRoundLog' = Append(vfRoundLog,
                          RepairPrompt(field_name, default, new_value, field_loc))
                    /\ vfAllValid' = (vfAllValid
                                      /\ valid_replacement(vfClass, field_loc, new_value))
    /\ IF vfIdx < Len(vfErrors)
       THEN vfIdx' = vfIdx + 1 /\ UNCHANGED vfPc
       ELSE /\ vfPc' = IF loop_condition(vfRounds) THEN "Validating" ELSE "Aborted"
            /\ UNCHANGED vfIdx
    /\ UNCHANGED <<vfClass, vfErrors, vfResult, vfRounds, vfDecision, vfData0, vfRoundData>>
    /\ UNCHANGED <<regVars, pmVars, cdVars, ioVars, appVars>>

ValidateAndFixStep == \E cls \in RepairClasses : \E data \in DataFor(cls) : ValidateAndFix(cls, data)

RepairDecisionStep == \E a \in {VBool(TRUE), VBool(FALSE), None} : RepairDecision(a)

\* what the operator may answer at the prompt the loop stands at: a typed text,
\* Enter on the shown default, or a cancelled prompt
RepairAnswers ==
    IF vfPc = "RepairingField" /\ vfErrors[vfIdx].loc # <<>>
    THEN {VStr(t) : t \in ReplacementTexts}
         \cup {VStr(PyStr(data_get(vfData, field_name_of(vfErrors[vfIdx].loc)))), None}
    ELSE {None}

RepairFieldStep == \E a \in RepairAnswers : RepairField(a)

VfInit == RegIdle /\ PmIdle /\ VfIdle /\ CdIdle /\ IoIdle /\ AppIdle

VfNext == ValidateAndFixStep \/ Validate \/ RepairDecisionStep \/ RepairFieldStep

SpecRepair == VfInit /\ [][VfNext]_vars

----------------------------------------------------------------------------
(* Repair loop claims *)

\* C8: validate_and_fix returns an instance only right after a validation of
\* the current value map succeeded, the instance being the result of that
\* validation; it returns None only when the operator did not agree to repair
\* after a failed validation of the current map; and an operator who declines
\* at the first failure gets None with no field prompt issued and the map as
\* it was received.
C8_ReturnOnlyAfterValidationOrDecline ==
    /\ vfPc = "Done" =>
          /\ validation_errors(vfClass, vfData) = <<>>
          /\ vfResult = construct(vfClass, vfData)
          /\ vfResult # None
    /\ vfPc = "Aborted" =>
          /\ vfResult = None
          /\ vfDecision \in {VBool(FALSE), None}
          /\ vfErrors # <<>>
          /\ vfErrors = validation_errors(vfClass, vfData)
    /\ vfPc \notin {"Done", "Aborted"} => vfResult = None
    /\ vfDecision \in {VBool(FALSE), None} => vfPc = "Aborted"
    /\ (vfPc = "Aborted" /\ vfRounds = 0) =>
          /\ vfRoundLog = <<>>
          /\ vfData = vfData0

\* the operator declined at the first failure
C8_Witness ==
    /\ vfPc = "Aborted"
    /\ vfRounds = 0
    /\ vfDecision = VBool(FALSE)
    /\ Len(vfErrors) = 2

\* C9: when the operator agreed to repair at every decision and gave, for every
\* reported field, a replacement text that is valid for that field, the
\* validation that follows the round succeeds (so the loop ends in Done), also
\* for errors whose path lies inside a nested structure, a list or a map.
C9_ValidReplacementsReachDone ==
    (/\ vfClass = "AppCfg"
     /\ vfPc = "Validating"
     /\ vfRounds >= 1
     /\ vfAllValid)
    => validation_errors(vfClass, vfData) = <<>>

\* errors of the current round the loop has gone past
Handled ==
    SubSeq(vfErrors, 1, IF vfPc = "RepairingField" THEN vfIdx - 1 ELSE Len(vfErrors))

\* those of them that name a field
HandledNamed ==
    LET named(e) == e.loc # <<>>
    IN  SelectSeq(Handled, named)

\* the entry of a map under a key; PydanticUndefined stands for "no entry"
EntryOf(d, key) == IF DictHas(d, key) THEN DictGet(d, key) ELSE PydanticUndefined

\* the round's prompts for a key that the operator answered with a text
Answered(key) ==
    {k \in 1..Len(vfRoundLog) : vfRoundLog[k].name = key /\ vfRoundLog[k].answer # None}

\* C10: in one repair round the errors are handled in reported order; each
\* error with a non-empty path gives exactly one prompt, for the first segment
\* of its path, showing the entry's current value as text, and the answered
\* text overwrites that top-level entry as a raw string (a cancelled prompt
\* leaves it); entries no error names stay as they were when the round began;
\* and once the last error is handled the loop stands at validation again.
C10_RepairRound ==
    (vfRounds >= 1 /\ vfPc \in {"RepairingField", "Validating"}) =>
        /\ vfPc = "RepairingField" => vfIdx \in 1..Len(vfErrors)
        /\ Len(vfRoundLog) = Len(HandledNamed)
        /\ \A k \in 1..Len(vfRoundLog) :
              /\ vfRoundLog[k].loc = HandledNamed[k].loc
              /\ vfRoundLog[k].name = HandledNamed[k].loc[1]
        /\ \A key \in {vfData.ks[i] : i \in 1..Len(vfData.ks)}
                      \cup {vfRoundData.ks[i] : i \in 1..Len(vfRoundData.ks)}
                      \cup {vfRoundLog[k].name : k \in 1..Len(vfRoundLog)} :
              EntryOf(vfData, key) =
                 IF Answered(key) # {}
                 THEN LET last == CHOOSE k \in Answered(key) :
                                      \A j \in Answered(key) : j <= k
                      IN  vfRoundLog[last].answer
                 ELSE EntryOf(vfRoundData, key)
        /\ \A k \in 1..Len(vfRoundLog) :
              /\ vfRoundLog[k].answer # None
                    => EntryOf(vfData, vfRoundLog[k].name).t = "str"
              /\ vfRoundLog[k].default.t = "str"

\* a finished round of two errors, one of them inside a nested structure, both
\* answered with a typed text
C10_Witness ==
    /\ vfPc = "Validating"
    /\ vfRounds >= 1
    /\ Len(vfRoundLog) = 2
    /\ vfRoundLog[1].name # vfRoundLog[2].name
    /\ \E k \in 1..2 : Len(vfRoundLog[k].loc) = 2
    /\ \A k \in 1..2 : vfRoundLog[k].answer \in {VStr(t) : t \in ReplacementTexts}
    /\ vfData # vfRoundData

\* C11: the repair loop has no iteration cap. validate_and_fix leaves the loop
\* only from a validation that succeeded or from a repair decision the operator
\* did not accept; however many rounds were accepted, the loop goes on.
C11_LeavesOnlyOnSuccessOrDecline ==
    [][ (vfPc \in {"Validating", "AwaitingRepairDecision", "RepairingField"}
         /\ vfPc' \notin {"Validating", "AwaitingRepairDecision", "RepairingField"})
        => \/ /\ vfPc = "Validating"
              /\ validation_errors(vfClass, vfData) = <<>>
              /\ vfPc' = "Done"
           \/ /\ vfPc = "AwaitingRepairDecision"
              /\ vfDecision' # VBool(TRUE)
              /\ vfPc' = "Aborted" ]_vars

\* the operator accepted repair as many times as the model lets a run go, and
\* the loop is still running: the map fails validation again
C11_Witness ==
    /\ vfRounds = MaxRounds
    /\ vfRounds >= 2
    /\ vfPc = "AwaitingRepairDecision"
    /\ vfDecision = VBool(TRUE)

----------------------------------------------------------------------------
(* Engine claims, continued *)

\* positions of the history at which the operator cancelled a prompt
Cancels == {i \in 1..Len(pmLog) : pmLog[i].ev = "prompt" /\ pmLog[i].answer = None}

\* C12: when the operator cancels a prompt during prompt_model, at any depth,
\* prompt_model produces no value map (the abort reaches its caller) and no
\* further prompt is issued.
C12_AbortProducesNoMap ==
    \A i \in Cancels :
        /\ pmExc # ""
        /\ \A j \in i + 1..Len(pmLog) : pmLog[j].ev # "prompt"

----------------------------------------------------------------------------
(* serialize and deserialize of the built-in handlers *)

\* int(x)
to_int(v) ==
    CASE v.t \in {"int", "bool"} -> VInt(v.n)
      [] v.t = "float" -> VInt(IF v.n < 0 THEN -(Abs(v.n) \div 10) ELSE v.n \div 10)
      [] v.t = "str" -> VInt(ParseInt(Strip(v.s)))

\* xs without its i-th element
Without(xs, i) == [j \in 1..Len(xs) - 1 |-> IF j < i THEN xs[j] ELSE xs[j + 1]]

RECURSIVE Perms(_)
Perms(xs) ==
    IF xs = <<>> THEN {<<>>}
    ELSE UNION { {<<xs[i]>> \o p : p \in Perms(Without(xs, i))} : i \in 1..Len(xs) }

\* list(value) of a set: the orders iteration over a set can produce (the order
\* follows the elements' hashes, which the language leaves unspecified)
list_of_set(value) == {VList(p) : p \in Perms(value.xs)}

\* handler.serialize(value): the values the call can return
serialize(h, value) ==
    CASE h = "BoolHandler" -> {VBool(Truthy(value))}
      [] h = "StrHandler" -> {VStr(PyStr(value))}
      [] h = "IntHandler" -> {to_int(value)}
      [] h = "FloatHandler" -> {to_float(value)}
      [] h = "DecimalHandler" -> {VStr(PyStr(value))}
      [] h = "EnumHandler" -> {IF value.t = "enum" THEN VStr(value.s) ELSE value}
      [] h \in {"LiteralHandler", "OptionalHandler", "ListHandler", "UnionHandler"} ->
            {value}
      [] h = "DatetimeHandler" ->
            {IF value.t = "datetime" THEN VStr(DatetimeIso(value)) ELSE value}
      [] h = "TimeHandler" -> {IF value.t = "time" THEN VStr(TimeIso(value.n)) ELSE value}
      [] h = "TimedeltaHandler" ->
            {IF value.t = "timedelta" THEN VFloat(value.n) ELSE value}
      [] h = "SetHandler" -> IF value.t = "set" THEN list_of_set(value) ELSE {value}
      [] h = "DictHandler" -> {IF Truthy(value) THEN value ELSE VDict(<<>>, <<>>)}
      [] h = "PydanticModelHandler" ->
            {IF value.t = "model" THEN model_dump(value) ELSE value}

\* handler.deserialize(raw, spec)
deserialize(h, raw, spec) ==
    CASE h = "BoolHandler" -> Out(VBool(Truthy(raw)), <<>>)
      [] h = "StrHandler" -> Out(VStr(PyStr(raw)), <<>>)
      [] h = "IntHandler" ->
            IF raw.t = "str" /\ ~IsIntText(Strip(raw.s)) THEN Raised("ValueError", <<>>)
            ELSE Out(to_int(raw), <<>>)
      [] h = "FloatHandler" ->
            IF raw.t = "str" /\ ~IsFloatText(Strip(raw.s)) THEN Raised("ValueError", <<>>)
            ELSE Out(to_float(raw), <<>>)
      [] h = "DecimalHandler" ->
            IF IsDecimalText(PyStr(raw)) THEN Out(ParseDecimal(PyStr(raw)), <<>>)
            ELSE Raised("InvalidOperation", <<>>)
      [] h = "EnumHandler" ->
            IF _is_enum_type(spec.inner_type)
            THEN LET ms == EnumMembers(spec.inner_type.k)
                 IN  IF \E i \in 1..Len(ms) : VStr(ms[i].s) = raw
                     THEN Out(ms[CHOOSE i \in 1..Len(ms) : VStr(ms[i].s) = raw], <<>>)
                     ELSE Raised("ValueError", <<>>)
            ELSE Out(raw, <<>>)
      [] h \in {"LiteralHandler", "OptionalHandler", "UnionHandler",
                "PydanticModelHandler"} ->
            Out(raw, <<>>)
      [] h = "DatetimeHandler" ->
            IF raw.t # "str" THEN Out(raw, <<>>)
            ELSE IF IsDatetimeText(raw.s) THEN Out(ParseDatetime(raw.s), <<>>)
            ELSE Raised("ValueError", <<>>)
      [] h = "TimeHandler" ->
            IF raw.t # "str" THEN Out(raw, <<>>)
            ELSE IF IsTimeText(raw.s) THEN Out(ParseTime(raw.s), <<>>)
            ELSE Raised("ValueError", <<>>)
      [] h = "TimedeltaHandler" ->
            IF raw.t = "str" /\ ~IsFloatText(Strip(raw.s)) THEN Raised("ValueError", <<>>)
            ELSE Out(VTimedelta(to_float(raw).n), <<>>)
      [] h = "ListHandler" -> Out(IF Truthy(raw) THEN VList(raw.xs) ELSE VList(<<>>), <<>>)
      [] h = "SetHandler" -> Out(IF Truthy(raw) THEN VSet(raw.xs) ELSE VSet(<<>>), <<>>)
      [] h = "DictHandler" -> Out(IF Truthy(raw) THEN raw ELSE VDict(<<>>, <<>>), <<>>)

\* values of the shape a built-in handler handles
CodecValues(h) ==
    CASE h = "BoolHandler" -> {VBool(TRUE), VBool(FALSE)}
      [] h = "StrHandler" -> {VStr(t) : t \in StrTexts}
      [] h = "IntHandler" -> {VInt(n) : n \in {MinInt, 0, 7, MaxInt}}
      [] h = "FloatHandler" -> Floats
      [] h = "DecimalHandler" -> Decimals
      [] h = "EnumHandler" -> {VEnum("SampleEnum", "a"), VEnum("SampleEnum", "b")}
      [] h = "LiteralHandler" -> {VStr("'aggressive'"), VStr("'passive'")}
      [] h = "DatetimeHandler" -> Datetimes
      [] h = "TimeHandler" -> Times
      [] h = "TimedeltaHandler" -> Timedeltas
      [] h = "OptionalHandler" -> {None, VStr("a")}
      [] h = "UnionHandler" -> {VInt(7), VStr("a")}
      [] h = "ListHandler" ->
            {VList(<<>>), VList(<<VStr("b"), VStr("a")>>), VList(<<VStr("a"), VStr("a")>>)}
      [] h = "SetHandler" ->
            { VSet(<<>>), VSet(<<VStr("a"), VStr("b")>>), VSet(<<VInt(9), VInt(10)>>),
              VSet(<<VEnum("SampleEnum", "b"), VEnum("SampleEnum", "a")>>) }
      [] h = "DictHandler" ->
            {VDict(<<>>, <<>>), VDict(<<"k1", "k2">>, <<VInt(1), VInt(7)>>)}
      [] h = "PydanticModelHandler" ->
            { VModel("InnerModel", <<"name", "value">>, <<VStr("i"), VInt(n)>>) :
                n \in {0, 7} }

\* the annotation of a field holding such a value
CodecAnnotation(h, value) ==
    CASE h = "BoolHandler" -> T("bool")
      [] h = "StrHandler" -> T("str")
      [] h = "IntHandler" -> T("int")
      [] h = "FloatHandler" -> T("float")
      [] h = "DecimalHandler" -> T("Decimal")
      [] h = "EnumHandler" -> T("SampleEnum")
      [] h = "LiteralHandler" -> StrategyLiteral
      [] h = "DatetimeHandler" -> T("datetime")
      [] h = "TimeHandler" -> T("time")
      [] h = "TimedeltaHandler" -> T("timedelta")
      [] h = "OptionalHandler" -> UnionOf(<<T("str"), NoneType>>)
      [] h = "UnionHandler" -> TypingUnionOf(<<T("int"), T("str")>>)
      [] h = "ListHandler" -> ListOf(T("str"))
      [] h = "SetHandler" ->
            SetOf(IF value.xs = <<>> THEN T("str")
                  ELSE IF value.xs[1].t = "enum" THEN T("SampleEnum")
                  ELSE T(value.xs[1].t))
      [] h = "DictHandler" -> DictOf(T("str"), T("int"))
      [] h = "PydanticModelHandler" -> T("InnerModel")

\* raw = handler.serialize(value), for the handler the seed registry selects
Serialize(h, value) ==
    /\ cdPc = "idle"
    /\ LET spec == resolve_field("f", CodecAnnotation(h, value))
       IN  /\ get_handler(SeedHandlers, spec) = h
           /\ cdSpec' = spec
    /\ cdHandler' = h
    /\ cdValue' = value
    /\ cdRaw' \in serialize(h, value)
    /\ cdPc' = "serialized"
    /\ UNCHANGED <<cdBack, cdExc>>
    /\ UNCHANGED <<regVars, pmVars, vfVars, ioVars, appVars>>

\* handler.deserialize(raw, spec) on what serialize returned
Deserialize ==
    /\ cdPc = "serialized"
    /\ LET o == deserialize(cdHandler, cdRaw, cdSpec)
       IN  cdBack' = o.v /\ cdExc' = o.exc
    /\ cdPc' = "deserialized"
    /\ UNCHANGED <<cdHandler, cdSpec, cdValue, cdRaw>>
    /\ UNCHANGED <<regVars, pmVars, vfVars, ioVars, appVars>>

SerializeStep ==
    \E i \in 1..Len(SeedHandlers) :
        \E v \in CodecValues(SeedHandlers[i]) : Serialize(SeedHandlers[i], v)

CdInit == RegIdle /\ PmIdle /\ VfIdle /\ CdIdle /\ IoIdle /\ AppIdle

CdNext == SerializeStep \/ Deserialize

SpecCodec == CdInit /\ [][CdNext]_vars

----------------------------------------------------------------------------
(* Serialization claims *)

\* Python's == on two values: sets compare by their elements
PyEq(a, b) ==
    IF a.t = "set" /\ b.t = "set"
    THEN {a.xs[i] : i \in 1..Len(a.xs)} = {b.xs[i] : i \in 1..Len(b.xs)}
    ELSE a = b

\* C13: for every built-in handler h and every value v of the shape h handles,
\* h.deserialize(h.serialize(v), descriptor) returns a value equal to v.
C13_RoundTrip ==
    cdPc = "deserialized" => (cdExc = "" /\ PyEq(cdBack, cdValue))

\* the texts sets of the model hold, in lexicographic (code point) order
SortedTexts == <<"10", "9", "SampleEnum.a", "SampleEnum.b", "a", "b">>

\* position of a text in that order
StrRank(t) == CHOOSE i \in 1..Len(SortedTexts) : SortedTexts[i] = t

\* C14: SetHandler.serialize returns the elements of the set as a sequence
\* ordered lexicographically by the elements' string form.
C14_SetSerializedSorted ==
    (cdPc # "idle" /\ cdHandler = "SetHandler")
    => /\ cdRaw.t = "list"
       /\ \A i \in 1..Len(cdRaw.xs) - 1 :
             StrRank(PyStr(cdRaw.xs[i])) < StrRank(PyStr(cdRaw.xs[i + 1]))

----------------------------------------------------------------------------
(* Engine claims: fields, defaults *)

\* the fields of a structure that are neither init=False nor frozen, in order
SettableFields(cls) ==
    LET settable(f) == f.init /\ ~f.frozen
    IN  SelectSeq(model_fields(cls), settable)

\* C15: the map prompt_model returns has exactly one entry per field whose
\* is_init flag is true, keyed by field name, in declaration order; a field
\* declared frozen or init=False gets no entry, no handler lookup and no prompt.
C15_OneEntryPerInitField ==
    (pmClass # "<None>" /\ pmExc = "") =>
        /\ pmResult.t = "dict"
        /\ pmResult.ks = [i \in 1..Len(SettableFields(pmClass)) |->
                             SettableFields(pmClass)[i].name]
        /\ Len(pmResult.xs) = Len(pmResult.ks)
        /\ \A i \in 1..Len(model_fields(pmClass)) :
              LET f == model_fields(pmClass)[i]
              IN  /\ introspect_model(pmClass)[i].is_init = (f.init /\ ~f.frozen)
                  /\ (~f.init \/ f.frozen) =>
                        \A j \in 1..Len(pmLog) :
                            pmLog[j].ev \in {"enter", "exit"}
                            \/ pmLog[j].spec.name # f.name

\* a structure with a frozen and an init=False field between two settable ones
C15_Witness ==
    /\ pmClass = "FrozenCfg"
    /\ pmExc = ""
    /\ pmResult.ks = <<"name", "note">>
    /\ pmDefaults # None

\* the enter event of the prompt_model call that position i of the history
\* lies in (for an exit event: the call it ends)
Scope(i) ==
    LET balanced(j) ==
            Cardinality({k \in j + 1..i - 1 : pmLog[k].ev = "enter"})
            = Cardinality({k \in j + 1..i - 1 : pmLog[k].ev = "exit"})
        open == {j \in 1..i - 1 : pmLog[j].ev = "enter" /\ balanced(j)}
    IN  CHOOSE j \in open : \A k \in open : k <= j

\* positions at which prompt_model calls the handler of one of its own fields
FieldCalls ==
    {i \in 2..Len(pmLog) :
        /\ pmLog[i].ev = "call"
        /\ pmLog[i - 1].ev = "lookup"
        /\ pmLog[i - 1].spec = pmLog[i].spec
        /\ LET specs == introspect_model(pmLog[Scope(i)].h)
           IN  \E x \in 1..Len(specs) : specs[x] = pmLog[i].spec}

\* what the caller's defaults hold for prompt_model call at history position e
SuppliedTo(e) == IF pmLog[e].default = None THEN VDict(<<>>, <<>>) ELSE pmLog[e].default

\* C16: the default prompt_model forwards to a field's handler is the entry the
\* caller supplied for that name whenever there is one, whatever its value;
\* otherwise the field's declared default; otherwise what the field's default
\* factory returns, and no default when the factory raises (the remaining
\* fields are still prompted).
C16_EffectiveDefault ==
    \A i \in FieldCalls :
        LET spec == pmLog[i].spec
            supplied == SuppliedTo(Scope(i))
            f == default_factory_call(spec.default_factory)
        IN  pmLog[i].default =
               IF DictHas(supplied, spec.name) THEN DictGet(supplied, spec.name)
               ELSE IF spec.default \notin {None, PydanticUndefined} THEN spec.default
               ELSE IF spec.default_factory # "<None>" /\ f.exc = "" THEN f.v
               ELSE None

\* positions at which a prompt_model call returned
Exits == {x \in 1..Len(pmLog) : pmLog[x].ev = "exit"}

\* C17: prompt_model never mutates the defaults mapping its caller passed: when
\* a call returns, at any depth, the mapping holds what it held at the call.
C17_DefaultsNotMutated ==
    /\ \A x \in Exits :
          pmLog[Scope(x)].default # None => pmLog[x].default = pmLog[Scope(x)].default
    /\ (pmClass # "<None>" /\ pmExc = "") =>
          /\ pmLog[Len(pmLog)].ev = "exit"
          /\ Scope(Len(pmLog)) = 1
          /\ pmLog[1].default = pmDefaults

\* a nested call returned that was handed one entry of the caller's mapping,
\* inside a call that was handed the mapping
C17_Witness ==
    /\ pmExc = ""
    /\ pmDefaults # None
    /\ \E x \in Exits :
          /\ Scope(x) > 1
          /\ pmLog[Scope(x)].default.t = "dict"
          /\ pmLog[Scope(x)].default.ks # <<>>

----------------------------------------------------------------------------
(* Engine claims: numeric prompts *)

\* positions of the text prompts of the integer, float and decimal handlers
NumericPrompts ==
    {i \in 2..Len(pmLog) :
        /\ pmLog[i].ev = "prompt"
        /\ pmLog[i].h = "text"
        /\ pmLog[i - 1].ev = "call"
        /\ pmLog[i - 1].h \in {"IntHandler", "FloatHandler", "DecimalHandler"}}

\* the text parses as a number of the handler's kind
ParsesAs(h, t) ==
    CASE h = "IntHandler" -> IsIntText(t)
      [] h = "FloatHandler" -> IsFloatText(t)
      [] h = "DecimalHandler" -> IsDecimalText(t)

\* the number the text stands for, times 10^MaxScale
Scaled(h, t) ==
    CASE h = "IntHandler" -> ParseInt(t) * Pow10(MaxScale)
      [] h = "FloatHandler" -> ParseFloat(t).n * Pow10(MaxScale - 1)
      [] h = "DecimalHandler" ->
            ParseDecimal(t).n * Pow10(MaxScale - ParseDecimal(t).xs[1].n)

\* C19: every non-empty text the validator of an integer, float or decimal
\* prompt accepts parses to a number that satisfies every ge, le, gt and lt
\* constraint of the field; text that is not a number of that kind is never
\* accepted; empty text is accepted only for a field that is not required, and
\* the value acquired is then the default.
C19_AcceptedNumbersSatisfyConstraints ==
    \A i \in NumericPrompts :
        LET h == pmLog[i - 1].h
            spec == pmLog[i].spec
            c == spec.constraints
            a == pmLog[i].answer
            t == Strip(a.s)
            one == Pow10(MaxScale)
        IN  a # None =>
               IF t = ""
               THEN /\ ~spec.is_required
                    /\ (pmExc = "" /\ i - 1 \in FieldCalls /\ Scope(i) = 1)
                          => DictGet(pmResult, spec.name) = pmLog[i - 1].default
               ELSE /\ ParsesAs(h, t)
                    /\ HasConstraint(c, "ge") => Scaled(h, t) >= Constraint(c, "ge") * one
                    /\ HasConstraint(c, "le") => Scaled(h, t) <= Constraint(c, "le") * one
                    /\ HasConstraint(c, "gt") => Scaled(h, t) > Constraint(c, "gt") * one
                    /\ HasConstraint(c, "lt") => Scaled(h, t) < Constraint(c, "lt") * one

----------------------------------------------------------------------------
(* Engine claims: the SimpleConfig scenario *)

\* positions of the prompts put to the operator
Prompts == {i \in 1..Len(pmLog) : pmLog[i].ev = "prompt"}

\* SimpleConfig was acquired with no overrides, a label was entered and every
\* other prompt was left at its pre-filled default
AcceptedAllDefaults ==
    /\ pmClass = "SimpleConfig"
    /\ pmDefaults = None
    /\ pmExc = ""
    /\ \A i \in Prompts :
          IF pmLog[i].spec.name = "label"
          THEN pmLog[i].answer # None
          ELSE pmLog[i].answer = pmLog[i].default

\* the text entered at the prompt of label
EnteredLabel ==
    LET i == CHOOSE j \in Prompts : pmLog[j].spec.name = "label"
    IN  pmLog[i].answer.s

\* C18 (as amended): acquiring SimpleConfig with no overrides and accepting
\* every pre-filled default yields a map whose entry for each defaulted field
\* equals that field's default (count 5, amount 0.01, and enabled and ratio
\* likewise), whose label is the entered text with the surrounding whitespace
\* stripped, and which validates against the structure.
C18_DefaultsAccepted ==
    AcceptedAllDefaults =>
        /\ pmResult.ks = <<"label", "count", "enabled", "ratio", "amount">>
        /\ DictGet(pmResult, "count") = VInt(5)
        /\ DictGet(pmResult, "amount") = VDecimal(1, 2)
        /\ DictGet(pmResult, "enabled") = VBool(TRUE)
        /\ DictGet(pmResult, "ratio") = VFloat(10)
        /\ DictGet(pmResult, "label") = VStr(Strip(EnteredLabel))
        /\ validation_errors("SimpleConfig", pmResult) = <<>>

C18_Witness ==
    /\ AcceptedAllDefaults
    /\ EnteredLabel = "a"
    /\ DictGet(pmResult, "amount") = VDecimal(1, 2)
    /\ \E i \in Prompts : pmLog[i].spec.name = "amount" /\ pmLog[i].answer = VStr("0.01")

\* C18 (as stated): the label of the map is the entered text itself.
C18_LabelIsEnteredText ==
    AcceptedAllDefaults => DictGet(pmResult, "label") = VStr(EnteredLabel)

----------------------------------------------------------------------------
(* Resolver claims: unions *)

IsUnionAnnotation(a) == get_origin(a) \in {"UnionType", "Union"}

\* the alternatives of a union annotation other than None, in annotation order
Alternatives(a) ==
    LET args == get_args(a)
        keep(x) == x # NoneType
    IN  SelectSeq(args, keep)

HasNone(a) == \E i \in 1..Len(get_args(a)) : get_args(a)[i] = NoneType

\* the shape flags of a descriptor
ShapeOf(spec) ==
    [ is_enum |-> spec.is_enum, is_literal |-> spec.is_literal,
      is_pydantic_model |-> spec.is_pydantic_model, is_union |-> spec.is_union,
      union_types |-> spec.union_types, is_list |-> spec.is_list,
      is_set |-> spec.is_set, is_dict |-> spec.is_dict ]

NoShape == ShapeOf(FieldSpec(""))

\* the descriptor get_handler was asked about is the resolver's descriptor of a
\* field with a union annotation (not one a composite handler synthesized)
UnionQueried ==
    /\ lastOp # "init"
    /\ querySpec \in FieldSpecs
    /\ IsUnionAnnotation(querySpec.annotation)

\* C20 (as amended): for a union annotation the descriptor is optional exactly
\* when None is one of the alternatives; with exactly one alternative other
\* than None it carries the shape flags and the key and value types of that
\* alternative's own resolution, and its inner type is the inner type of that
\* resolution when it has one and the alternative itself otherwise; with more
\* than one it is a tagged union of those alternatives in annotation order and
\* carries no other shape flag.
C20_UnionResolution ==
    UnionQueried =>
        LET a == querySpec.annotation
            alts == Alternatives(a)
        IN  /\ querySpec.is_optional = HasNone(a)
            /\ Len(alts) = 1 =>
                  LET inner == _resolve_type(alts[1])
                  IN  /\ ShapeOf(querySpec) = ShapeOf(inner)
                      /\ querySpec.key_type = inner.key_type
                      /\ querySpec.value_type = inner.value_type
                      /\ querySpec.inner_type =
                            IF inner.inner_type # NoType THEN inner.inner_type
                            ELSE alts[1]
            /\ Len(alts) > 1 =>
                  /\ ShapeOf(querySpec) =
                        [NoShape EXCEPT !.is_union = TRUE, !.union_types = alts]
                  /\ querySpec.inner_type = NoType

C20_Witness ==
    /\ UnionQueried
    /\ querySpec.annotation = UnionOf(<<NoneType, DictOf(T("str"), T("Decimal"))>>)
    /\ querySpec.is_optional
    /\ querySpec.is_dict
    /\ querySpec.inner_type = DictOf(T("str"), T("Decimal"))

\* C20 (as stated): with exactly one alternative other than None the
\* descriptor carries the inner type of that alternative's own resolution.
C20_InnerTypeOfAlternative ==
    (UnionQueried /\ Len(Alternatives(querySpec.annotation)) = 1) =>
        querySpec.inner_type =
            _resolve_type(Alternatives(querySpec.annotation)[1]).inner_type

----------------------------------------------------------------------------
(* Introspection claims *)

\* positions at which a prompt_model call began
Enters == {e \in 1..Len(pmLog) : pmLog[e].ev = "enter"}

\* the field has neither a declared default nor a default factory
NoDefault(f) == f.default = PydanticUndefined /\ f.default_factory = "<None>"

\* C21: for every field introspect_model returns, is_required is true exactly
\* when the field has no declared default, no default factory and is not
\* optional; an optional field with no declared default and no factory gets
\* default None and is_required false.  Stated for the structure of every
\* prompt_model call of the run, the nested ones included.
C21_RequiredIffNoDefault ==
    \A e \in Enters :
        LET fs == model_fields(pmLog[e].h)
            specs == introspect_model(pmLog[e].h)
        IN  /\ Len(specs) = Len(fs)
            /\ \A i \in 1..Len(fs) :
                  /\ specs[i].name = fs[i].name
                  /\ specs[i].is_required = (NoDefault(fs[i]) /\ ~specs[i].is_optional)
                  /\ (specs[i].is_optional /\ NoDefault(fs[i])) =>
                        (specs[i].default = None /\ ~specs[i].is_required)
                  /\ specs[i].is_optional = HasNone(fs[i].annotation)

\* an optional field without default was introspected and its handler called
\* with the descriptor that is not required and defaults to None
C21_Witness ==
    /\ pmClass = "OptCfg"
    /\ \E i \in FieldCalls :
          /\ pmLog[i].spec.name = "limit"
          /\ pmLog[i].spec = introspect_model("OptCfg")[2]
          /\ NoDefault(model_fields("OptCfg")[2])
          /\ ~pmLog[i].spec.is_required
          /\ pmLog[i].spec.default = None

----------------------------------------------------------------------------
(* Resolver claims: shapes *)

\* the shape flags of a descriptor that are set
ShapeFlags(spec) ==
    {n \in {"list", "set", "dict", "literal", "enum", "model", "union"} :
        CASE n = "list" -> spec.is_list
          [] n = "set" -> spec.is_set
          [] n = "dict" -> spec.is_dict
          [] n = "literal" -> spec.is_literal
          [] n = "enum" -> spec.is_enum
          [] n = "model" -> spec.is_pydantic_model
          [] n = "union" -> spec.is_union}

\* the descriptor get_handler was asked about is one the resolver produced
ResolvedQueried == lastOp # "init" /\ querySpec \in FieldSpecs

\* C22: every descriptor the type resolver produces has at most one of the
\* shape flags list, set, map, literal, enumeration, nested structure and
\* tagged union set, optionals wrapping any other shape included; with none set
\* the descriptor is a primitive or temporal one, told by its inner type, which
\* is then a plain class.
C22_AtMostOneShape ==
    ResolvedQueried =>
        /\ Cardinality(ShapeFlags(querySpec)) <= 1
        /\ ShapeFlags(querySpec) = {} =>
              /\ querySpec.inner_type \in {T(k) : k \in PlainTypes}
              /\ ~_is_enum_type(querySpec.inner_type)
              /\ ~_is_pydantic_model(querySpec.inner_type)

\* an optional wrapping a list was resolved: one shape flag, and optional
C22_Witness ==
    /\ ResolvedQueried
    /\ querySpec.annotation = UnionOf(<<ListOf(T("str")), NoneType>>)
    /\ querySpec.is_optional
    /\ ShapeFlags(querySpec) = {"list"}

----------------------------------------------------------------------------
(* Registry claims: the fresh registry *)

\* get_handler was called on a registry nothing was registered with
FreshLookup == lastOp = "get_handler" /\ regLog = <<>>

\* the composite strategy of a descriptor that is not optional, by its flags
CompositeOf(spec) ==
    IF spec.is_union THEN "UnionHandler"
    ELSE IF spec.is_list THEN "ListHandler"
    ELSE IF spec.is_set THEN "SetHandler"
    ELSE IF spec.is_dict THEN "DictHandler"
    ELSE NoHandler

\* C23: a freshly constructed registry holds the handlers in the order optional,
\* tagged union, list, set, map, boolean, enumeration, literal, decimal, integer,
\* float, date-time, time, duration, nested structure, string; so a descriptor
\* flagged optional is dispatched to the optional handler whatever its inner
\* type and other flags, and a descriptor of a composite shape to the handler
\* of that shape, never to a primitive handler.
C23_FreshRegistryOrder ==
    FreshLookup =>
        /\ handlersAtCall =
              << "OptionalHandler", "UnionHandler", "ListHandler", "SetHandler",
                 "DictHandler", "BoolHandler", "EnumHandler", "LiteralHandler",
                 "DecimalHandler", "IntHandler", "FloatHandler", "DatetimeHandler",
                 "TimeHandler", "TimedeltaHandler", "PydanticModelHandler",
                 "StrHandler" >>
        /\ querySpec.is_optional => selected = "OptionalHandler"
        /\ (~querySpec.is_optional /\ CompositeOf(querySpec) # NoHandler) =>
              selected = CompositeOf(querySpec)

\* an optional integer was looked up in a fresh registry: the integer handler
\* matches it too, and the optional handler was returned
C23_Witness ==
    /\ FreshLookup
    /\ querySpec.is_optional
    /\ querySpec.inner_type = T("int")
    /\ can_handle("IntHandler", querySpec)
    /\ selected = "OptionalHandler"

----------------------------------------------------------------------------
(* Engine claims: optional composite fields *)

\* the descriptor's inner shape is a composite one
IsComposite(spec) ==
    spec.is_pydantic_model \/ spec.is_list \/ spec.is_set \/ spec.is_dict \/ spec.is_union

\* gates of optional fields of the top-level structure with a composite inner
\* shape that the operator answered yes, in a run that returned a map
CompositeGatesAccepted ==
    {i \in Gates(VBool(TRUE)) :
        pmExc = "" /\ Scope(i) = 1 /\ IsComposite(pmLog[i].spec)}

\* the count the operator entered at the count prompt that follows gate i, or
\* -1 when no count was entered there
CountAfter(i) ==
    IF /\ i + 3 <= Len(pmLog)
       /\ pmLog[i + 3].ev = "prompt"
       /\ pmLog[i + 3].h = "text"
       /\ pmLog[i + 3].answer # None
       /\ IsDigit(Strip(pmLog[i + 3].answer.s))
    THEN ParseInt(Strip(pmLog[i + 3].answer.s))
    ELSE -1

\* C28: when the operator answers yes at the gate of an optional field whose
\* inner shape is composite, the value stored is the one the inner shape's
\* handler produces with the registry and the engine at hand: for an optional
\* nested structure the sub-map prompt_model acquires for the inner structure,
\* for an optional list with count n a sequence of n acquired elements, and
\* never None because the registry or the engine was not handed on.
C28_OptionalCompositeAcquired ==
    \A i \in CompositeGatesAccepted :
        LET spec == pmLog[i].spec
            v == DictGet(pmResult, spec.name)
        IN  /\ v # None
            /\ spec.is_pydantic_model =>
                  /\ v.t = "dict"
                  /\ v.ks = MutableFieldNames(spec.inner_type.k)
                  /\ \E j \in i + 1..Len(pmLog) :
                        pmLog[j].ev = "enter" /\ pmLog[j].h = spec.inner_type.k
            /\ (spec.is_list /\ CountAfter(i) >= 0) =>
                  /\ v.t = "list"
                  /\ Len(v.xs) = CountAfter(i)

----------------------------------------------------------------------------
(* Resolver claims: element descriptors *)

\* the descriptors the list and map handlers synthesize for an element or a
\* value of a resolved field (a set without enumeration elements is prompted as
\* a list and gets the list handler's element descriptor)
ElementSpecs ==
    {ListHandler_inner_spec(s, 0) : s \in {x \in FieldSpecs : x.is_list}}
    \cup {DictHandler_val_spec(s, "k") : s \in {x \in FieldSpecs : x.is_dict}}

\* C29: the descriptor synthesized for an element of a list or set field, or
\* for a value of a map field, has the shape classification the type resolver
\* gives the element (or value) annotation, and is dispatched to the handler
\* of that shape: an element annotation that is optional, literal, list, set,
\* map or tagged union is classified and handled as such.
C29_ElementShapeAsResolved ==
    (lastOp = "get_handler" /\ querySpec \in ElementSpecs) =>
        LET r == _resolve_type(querySpec.annotation)
        IN  /\ ShapeOf(querySpec) = ShapeOf(r)
            /\ querySpec.is_optional = r.is_optional
            /\ selected = get_handler(handlersAtCall, r)

----------------------------------------------------------------------------
(* YAML documents: yaml.dump with ModelConfigDumper, yaml.safe_load *)

METADATA_KEY == "_metadata"

CONFIGURATION_KEY == "configuration"

\* a scalar of a document, written plain or quoted
YScalar(style, text) == Val(style, text, 0, <<>>, <<>>)

\* a sequence of a document
YSeq(items) == Val("seq", "", 0, items, <<>>)

\* a mapping of a document: key node, value node, key node, value node, ...
YMap(pairs) == Val("map", "", 0, pairs, <<>>)

\* floats a document of the model may hold
YamlFloats == Floats \cup {VFloat(d.n) : d \in Timedeltas}

\* the implicit resolver: the type a plain scalar is read as
yaml_resolve(text) ==
    CASE text \in {"", "~", "null", "Null", "NULL"} -> "null"
      [] text \in {"yes", "Yes", "YES", "no", "No", "NO", "true", "True", "TRUE",
                   "false", "False", "FALSE", "on", "On", "ON", "off", "Off", "OFF"} ->
            "bool"
      [] IsIntText(text) -> "int"
      [] \E x \in Times : x.n >= 36000 /\ TimeIso(x.n) = text -> "int"
      [] \E f \in YamlFloats : FloatStr(f) = text -> "float"
      [] \E d \in Decimals : d.xs[1].n > 0 /\ DecimalStr(d) = text -> "float"
      [] \E x \in Datetimes : DatetimeIso(x) = text -> "timestamp"
      [] OTHER -> "str"

\* a dumper that writes every scalar plain
scalar_style_plain(tag, text) == "plain"

\* Serializer/Emitter: a scalar is written plain when reading it back plain
\* gives its own tag and it has no leading or trailing blank, else quoted
scalar_style(tag, text) ==
    IF yaml_resolve(text) = tag /\ Strip(text) = text THEN "plain" ELSE "quoted"

\* SafeRepresenter: the node of a value
RECURSIVE yaml_represent(_)
yaml_represent(v) ==
    CASE v.t = "None" -> YScalar("plain", "null")
      [] v.t = "bool" -> YScalar("plain", IF v.n = 1 THEN "true" ELSE "false")
      [] v.t = "int" -> YScalar(scalar_style("int", ToString(v.n)), ToString(v.n))
      [] v.t = "float" -> YScalar(scalar_style("float", FloatStr(v)), FloatStr(v))
      [] v.t = "str" -> YScalar(scalar_style("str", v.s), v.s)
      [] v.t = "list" -> YSeq([i \in 1..Len(v.xs) |-> yaml_represent(v.xs[i])])
      [] v.t = "dict" ->
            YMap([i \in 1..2 * Len(v.xs) |->
                     IF i % 2 = 1 THEN yaml_represent(VStr(v.ks[(i + 1) \div 2]))
                     ELSE yaml_represent(v.xs[i \div 2])])

\* SafeConstructor: the value of a node
RECURSIVE yaml_construct(_)
yaml_construct(node) ==
    CASE node.t = "quoted" -> VStr(node.s)
      [] node.t = "plain" ->
            LET tag == yaml_resolve(node.s)
            IN  CASE tag = "null" -> None
                  [] tag = "bool" ->
                        VBool(node.s \in {"yes", "Yes", "YES", "true", "True", "TRUE",
                                          "on", "On", "ON"})
                  [] tag = "int" ->
                        IF IsIntText(node.s) THEN VInt(ParseInt(node.s))
                        ELSE VInt((CHOOSE x \in Times : TimeIso(x.n) = node.s).n)
                  [] tag = "float" ->
                        IF \E f \in YamlFloats : FloatStr(f) = node.s
                        THEN CHOOSE f \in YamlFloats : FloatStr(f) = node.s
                        ELSE Val("float", node.s, 0, <<>>, <<>>)
                  [] tag = "timestamp" ->
                        CHOOSE x \in Datetimes : DatetimeIso(x) = node.s
                  [] OTHER -> VStr(node.s)
      [] node.t = "seq" -> VList([i \in 1..Len(node.xs) |-> yaml_construct(node.xs[i])])
      [] node.t = "map" ->
            VDict([i \in 1..Len(node.xs) \div 2 |->
                      LET k == yaml_construct(node.xs[2 * i - 1])
                      IN  IF k.t = "str" THEN k.s ELSE "!" \o k.t \o " " \o node.xs[2 * i - 1].s],
                  [i \in 1..Len(node.xs) \div 2 |-> yaml_construct(node.xs[2 * i])])

\* a set's elements in the order they were given
sorted_as_given(xs) == xs

\* sorted(value, key=str)
sorted_by_str(xs) ==
    CHOOSE p \in Perms(xs) :
        \A i \in 1..Len(p) - 1 : StrRank(PyStr(p[i])) <= StrRank(PyStr(p[i + 1]))

\* _prepare_value; _prepare_dict is its dict branch
RECURSIVE _prepare_value(_)
_prepare_value(value) ==
    CASE value.t = "None" -> None
      [] value.t = "model" -> _prepare_value(model_dump(value))
      [] value.t = "dict" ->
            VDict(value.ks, [i \in 1..Len(value.xs) |-> _prepare_value(value.xs[i])])
      [] value.t = "list" -> VList([i \in 1..Len(value.xs) |-> _prepare_value(value.xs[i])])
      [] value.t = "set" ->
            LET ordered == sorted_by_str(value.xs)
            IN  VList([i \in 1..Len(ordered) |-> _prepare_value(ordered[i])])
      [] value.t = "Decimal" -> VStr(DecimalStr(value))
      [] value.t = "enum" -> VStr(value.s)
      [] value.t = "datetime" -> VStr(DatetimeIso(value))
      [] value.t = "time" -> VStr(TimeIso(value.n))
      [] value.t = "timedelta" -> VFloat(value.n)
      [] OTHER -> value

_prepare_dict(data) == _prepare_value(data)

\* f"{config_class.__module__}.{config_class.__qualname__}"
config_fqn_of(config_class) == "tests.conftest." \o config_class

\* _get_package_version(): the installed version, or "unknown"
PackageVersions == {"0.1.0", "unknown"}

PathIndex(path) == CHOOSE i \in 1..Len(Paths) : Paths[i] = path

\* the file system after serialize_to_yaml(data, config_class, output_path, model_name)
serialize_to_yaml(fs, data, config_class, output_path, model_name, version) ==
    LET document ==
            VDict(<<METADATA_KEY, CONFIGURATION_KEY>>,
                  << VDict(<<"model_type", "configuration_class", "version">>,
                           << VStr(model_name), VStr(config_fqn_of(config_class)),
                              VStr(version) >>),
                     _prepare_dict(data) >>)
    IN  [fs EXCEPT ![PathIndex(output_path)] = yaml_represent(document)]

\* d.get(key, default)
dict_get(d, key, default) == IF DictHas(d, key) THEN DictGet(d, key) ELSE default

\* load_from_yaml(path): model_type, config_class_fqn, data
load_from_yaml(fs, path) ==
    LET raw == yaml_construct(fs[PathIndex(path)])
        metadata == dict_get(raw, METADATA_KEY, VDict(<<>>, <<>>))
    IN  << dict_get(metadata, "model_type", VStr("")),
           dict_get(metadata, "configuration_class", VStr("")),
           dict_get(raw, CONFIGURATION_KEY, VDict(<<>>, <<>>)) >>

\* calls of serialize_to_yaml: configuration class, model name, value map
YamlData ==
    { << "SimpleConfig", "SimpleConfig",
         VDict(<<"label", "count", "enabled", "ratio", "amount">>,
               <<VStr("1"), VInt(9), VBool(TRUE), VFloat(5), VDecimal(10, 2)>>) >>,
      << "ComplexConfig", "1",
         VDict(<<"name", "mode", "inner", "optional_inner", "tags", "alt", "metadata">>,
               << VStr(" b"),
                  VEnum("SampleEnum", "b"),
                  VModel("InnerModel", <<"name", "value">>, <<VStr("null"), VInt(10)>>),
                  None,
                  VList(<<VStr("b"), VStr("a"), VStr("null")>>),
                  VModel("SimpleConfig",
                         <<"label", "count", "enabled", "ratio", "amount">>,
                         << VStr("yes"), VInt(0), VBool(FALSE), VFloat(-10),
                            VDecimal(1, MaxScale) >>),
                  VDict(<<"b", "a">>, <<VDecimal(-1, 1), VDecimal(5, 0)>>) >>) >>,
      << "ComplexConfig", "null",
         VDict(<<"modifiers", "ids", "timeout", "at", "start", "when", "nested">>,
               << VSet(<<VEnum("SampleEnum", "b"), VEnum("SampleEnum", "a")>>),
                  VSet(<<VInt(10), VInt(9)>>),
                  VTimedelta(54000), VTime(37800), VTime(0),
                  VDatetime(2024, 1, 15, 37800),
                  VList(<< VDict(<<"d">>, <<VDecimal(-1, 1)>>),
                           VSet(<<VStr("b"), VStr("a")>>),
                           VTimedelta(5) >>) >>) >>,
      << "ComplexConfig", "",
         VDict(<<"ids", "tags">>,
               <<VSet(<<VInt(9), VInt(10)>>), VList(<<VStr("a"), VStr("b")>>)>>) >>,
      << "InnerModel", "InnerModel", VDict(<<>>, <<>>) >> }

\* serialize_to_yaml(data, config_class, output_path, model_name=model_name)
SerializeToYaml(data, config_class, output_path, model_name) ==
    /\ \E version \in PackageVersions :
          files' = serialize_to_yaml(files, data, config_class, output_path,
                                     model_name, version)
    /\ ymCall' = <<data, config_class, output_path, model_name>>
    /\ ymLoaded' = <<>>
    /\ UNCHANGED <<regVars, pmVars, vfVars, cdVars, appVars>>

\* model_name, config_fqn, data = load_from_yaml(path), on a file that exists
LoadFromYaml(path) ==
    /\ files[PathIndex(path)] # NoFile
    /\ ymLoaded' = <<path>> \o load_from_yaml(files, path)
    /\ UNCHANGED <<files, ymCall>>
    /\ UNCHANGED <<regVars, pmVars, vfVars, cdVars, appVars>>

SerializeToYamlStep ==
    \E d \in YamlData : \E i \in 1..Len(Paths) :
        SerializeToYaml(d[3], d[1], Paths[i], d[2])

LoadFromYamlStep == \E i \in 1..Len(Paths) : LoadFromYaml(Paths[i])

YamlInit == RegIdle /\ PmIdle /\ VfIdle /\ CdIdle /\ IoIdle /\ AppIdle

YamlNext == SerializeToYamlStep \/ LoadFromYamlStep

SpecYaml == YamlInit /\ [][YamlNext]_vars

----------------------------------------------------------------------------
(* The commands: new, edit, validate, show-schema *)

\* names a command may be given for a class: the name, what rpartition(".")
\* splits it into
Fqns ==
    { <<"tests.conftest.RangeCfg", "tests.conftest", "RangeCfg">>,
      <<"tests.conftest.Missing", "tests.conftest", "Missing">>,
      <<"tests.conftest.SampleEnum", "tests.conftest", "SampleEnum">>,
      <<"tests.conftest.pytest", "tests.conftest", "pytest">>,
      <<"nomodule.Thing", "nomodule", "Thing">>,
      <<"broken.Thing", "broken", "Thing">>,
      <<"RangeCfg", "", "RangeCfg">> }

\* module_path, _, class_name = fqn.rpartition(".")
rpartition(fqn) ==
    IF \E f \in Fqns : f[1] = fqn
    THEN LET f == CHOOSE f \in Fqns : f[1] = fqn IN <<f[2], f[3]>>
    ELSE <<"", fqn>>

\* importlib.import_module(module_path): the module, or the exception raised
\* (an empty name is a ValueError; importing runs the module, which may raise
\* anything)
import_module(module_path) ==
    CASE module_path = "tests.conftest" -> <<"ok", module_path>>
      [] module_path = "" -> <<"raise", "ValueError">>
      [] module_path = "broken" -> <<"raise", "SyntaxError">>
      [] OTHER -> <<"raise", "ModuleNotFoundError">>

\* getattr(module, class_name): what the module holds under the name
module_getattr(class_name) ==
    CASE class_name \in RepairClasses -> <<"ok", "model class", class_name>>
      [] class_name = "SampleEnum" -> <<"ok", "class", class_name>>
      [] class_name = "pytest" -> <<"ok", "module", class_name>>
      [] OTHER -> <<"raise", "AttributeError">>

\* resolve_config_class(fqn): <<"ok", class>> or <<"raise", exception>>
resolve_config_class(fqn) ==
    LET parts == rpartition(fqn)
        module == import_module(parts[1])
        cls == module_getattr(parts[2])
    IN  IF module[1] = "raise" THEN module
        ELSE IF cls[1] = "raise" THEN cls
        ELSE IF cls[2] # "model class" THEN <<"raise", "ValueError">>
        ELSE <<"ok", cls[3]>>

\* a command that reports a failed lookup and ends normally
lookup_failure_exit_0(exc) == 0

\* exit code when the lookup raised: typer.Exit(1) for ImportError, ValueError
\* and AttributeError, which the commands catch; an exception they do not
\* catch ends the interpreter with status 1 as well
lookup_failure_exit(exc) == 1

\* a command that saves unless the answer is an explicit no
save_declined_only_no(should_save) == should_save = VBool(FALSE)

\* `if not should_save`
save_declined(should_save) == ~Truthy(should_save)

\* a loop that repaired a copy: the caller's map is as it was passed
caller_map_copy(passed, repaired) == passed

\* the caller's `data` once validate_and_fix returned: the object it passed,
\* which the loop assigned into
caller_map(passed, repaired) == repaired

\* `output or config_file`
output_or(output, config_file) == IF output # "<None>" THEN output ELSE config_file

\* `model_name or config_class.__name__`
model_name_or(model_name, config_class) ==
    IF Truthy(model_name) THEN PyStr(model_name) ELSE config_class

\* the document an earlier run saved for a value map
SavedAs(data, name) ==
    serialize_to_yaml(<<NoFile, NoFile>>, data, "RangeCfg", Paths[1], name, "0.1.0")[1]

SavedDocument == SavedAs(VDict(<<"low", "high">>, <<VInt(1), VInt(5)>>), "RangeCfg")

\* a saved document in which an entry was then changed by hand
EditedDocument == SavedAs(VDict(<<"low", "high">>, <<VInt(7), VStr("x")>>), "")

\* documents a file may hold when a command starts: saved by an earlier run,
\* or edited by hand
StoredDocuments ==
    { NoFile,
      SavedDocument,
      EditedDocument,
      yaml_represent(VDict(<<CONFIGURATION_KEY>>,
                           <<VDict(<<"low", "high">>, <<VInt(1), VInt(5)>>)>>)),
      yaml_represent(VDict(<<METADATA_KEY, CONFIGURATION_KEY>>,
                           << VDict(<<"model_type", "configuration_class">>,
                                    <<VStr("Gone"), VStr("nomodule.Thing")>>),
                              VDict(<<"low">>, <<VInt(7)>>) >>)) }

\* the command ends with the given exit code
AppExits(code, events) ==
    /\ appPc' = "exited"
    /\ appExit' = code
    /\ appLog' = appLog \o events

\* the lookup of a command: on failure the command ends, else it goes on
AppResolves(fqn, next, events) ==
    LET r == resolve_config_class(fqn)
    IN  IF r[1] = "raise"
        THEN /\ AppExits(lookup_failure_exit(r[2]), events \o <<"lookup failed">>)
             /\ UNCHANGED appClass
        ELSE /\ appClass' = r[2]
             /\ appPc' = next
             /\ appLog' = appLog \o events \o <<"lookup">>
             /\ UNCHANGED appExit

\* new <model_fqn> [--output <output>], up to the wizard
NewConfig(model_fqn, output) ==
    /\ appPc = "idle"
    /\ appCmd' = <<"new", model_fqn, output>>
    /\ AppResolves(model_fqn, "prompting", <<>>)
    /\ UNCHANGED appModelName
    /\ UNCHANGED <<regVars, pmVars, vfVars, cdVars, ioVars>>

\* edit <config_file> [--output <output>], up to the wizard
EditConfig(config_file, output) ==
    /\ appPc = "idle"
    /\ appCmd' = <<"edit", config_file, output>>
    /\ IF files[PathIndex(config_file)] = NoFile
       THEN /\ AppExits(1, <<"file not found">>)
            /\ UNCHANGED <<appClass, appModelName, ymLoaded>>
       ELSE LET loaded == load_from_yaml(files, config_file)
            IN  /\ ymLoaded' = <<config_file>> \o loaded
                /\ appModelName' = PyStr(loaded[1])
                /\ IF ~Truthy(loaded[2])
                   THEN /\ AppExits(1, <<"load", "no class">>)
                        /\ UNCHANGED appClass
                   ELSE AppResolves(PyStr(loaded[2]), "prompting", <<"load">>)
    /\ UNCHANGED <<files, ymCall>>
    /\ UNCHANGED <<regVars, pmVars, vfVars, cdVars>>

\* data = prompt_model(config_class[, defaults=data]), then validate_and_fix
\* is called on it
AppPromptModel ==
    /\ appPc = "prompting"
    /\ LET defaults == IF appCmd[1] = "edit" THEN ymLoaded[4] ELSE None
       IN  \E o \in prompt_model(appClass, defaults, "", <<>>) :
              /\ pmClass' = appClass
              /\ pmDefaults' = defaults
              /\ pmResult' = o.v
              /\ pmLog' = o.log
              /\ pmExc' = o.exc
              /\ IF o.exc # ""
                 THEN /\ AppExits(1, <<"prompt_model", "raised">>)
                      /\ UNCHANGED vfVars
                 ELSE /\ VfCalled(appClass, o.v)
                      /\ appPc' = "validating"
                      /\ appLog' = appLog \o <<"prompt_model", "validate_and_fix">>
                      /\ UNCHANGED appExit
    /\ UNCHANGED <<appCmd, appClass, appModelName>>
    /\ UNCHANGED <<regVars, cdVars, ioVars>>

\* instance = validate_and_fix(...) returned; `if instance is None`
AppValidated ==
    /\ appPc = "validating"
    /\ vfPc \in {"Done", "Aborted"}
    /\ IF vfPc = "Aborted" \/ vfResult = None
       THEN AppExits(1, <<"returned None">>)
       ELSE /\ appPc' = "confirming"
            /\ appLog' = Append(appLog, "returned instance")
            /\ UNCHANGED appExit
    /\ UNCHANGED <<appCmd, appClass, appModelName>>
    /\ UNCHANGED <<regVars, pmVars, vfVars, cdVars, ioVars>>

\* "Save configuration?"; on yes serialize_to_yaml writes the file
AppConfirmSave(should_save) ==
    /\ appPc = "confirming"
    /\ IF save_declined(should_save)
       THEN /\ AppExits(0, <<"confirm " \o PyStr(should_save)>>)
            /\ UNCHANGED ioVars
       ELSE LET data == caller_map(pmResult, vfData)
                output_path == IF appCmd[1] = "edit"
                               THEN output_or(appCmd[3], appCmd[2])
                               ELSE appCmd[3]
                model_name == IF appCmd[1] = "edit"
                              THEN model_name_or(VStr(appModelName), appClass)
                              ELSE appClass
            IN  /\ \E version \in PackageVersions :
                      files' = serialize_to_yaml(files, data, appClass, output_path,
                                                 model_name, version)
                /\ ymCall' = <<data, appClass, output_path, model_name>>
                /\ AppExits(0, <<"confirm " \o PyStr(should_save), "write">>)
                /\ UNCHANGED ymLoaded
    /\ UNCHANGED <<appCmd, appClass, appModelName>>
    /\ UNCHANGED <<regVars, pmVars, vfVars, cdVars>>

\* validate <config_file> [--model <model>]
ValidateConfigCmd(config_file, model) ==
    /\ appPc = "idle"
    /\ appCmd' = <<"validate", config_file, model>>
    /\ IF files[PathIndex(config_file)] = NoFile
       THEN /\ AppExits(1, <<"file not found">>)
            /\ UNCHANGED <<appClass, appModelName, ymLoaded>>
       ELSE LET loaded == load_from_yaml(files, config_file)
                fqn == IF model # "<None>" THEN VStr(model) ELSE loaded[2]
                r == resolve_config_class(PyStr(fqn))
            IN  /\ ymLoaded' = <<config_file>> \o loaded
                /\ appModelName' = PyStr(loaded[1])
                /\ IF ~Truthy(fqn)
                   THEN /\ AppExits(1, <<"load", "no class">>)
                        /\ UNCHANGED appClass
                   ELSE IF r[1] = "raise"
                   THEN /\ AppExits(lookup_failure_exit(r[2]), <<"load", "lookup failed">>)
                        /\ UNCHANGED appClass
                   ELSE /\ appClass' = r[2]
                        /\ IF validation_errors(r[2], loaded[3]) = <<>>
                           THEN AppExits(0, <<"load", "lookup", "valid">>)
                           ELSE AppExits(1, <<"load", "lookup", "invalid">>)
    /\ UNCHANGED <<files, ymCall>>
    /\ UNCHANGED <<regVars, pmVars, vfVars, cdVars>>

\* show-schema <model_fqn>
ShowSchema(model_fqn) ==
    /\ appPc = "idle"
    /\ appCmd' = <<"show-schema", model_fqn, "<None>">>
    /\ LET r == resolve_config_class(model_fqn)
       IN  IF r[1] = "raise"
           THEN /\ AppExits(lookup_failure_exit(r[2]), <<"lookup failed">>)
                /\ UNCHANGED appClass
           ELSE /\ appClass' = r[2]
                /\ AppExits(0, <<"lookup", "schema">>)
    /\ UNCHANGED appModelName
    /\ UNCHANGED <<regVars, pmVars, vfVars, cdVars, ioVars>>

\* the repair loop runs inside a command only
AppValidate == appPc = "validating" /\ Validate

AppRepairDecision == appPc = "validating" /\ RepairDecisionStep

AppRepairField == appPc = "validating" /\ RepairFieldStep

NewConfigStep ==
    \E f \in Fqns : \E i \in 1..Len(Paths) : NewConfig(f[1], Paths[i])

EditConfigStep ==
    \E i \in 1..Len(Paths) : \E j \in 0..Len(Paths) :
        EditConfig(Paths[i], IF j = 0 THEN "<None>" ELSE Paths[j])

AppConfirmSaveStep == \E a \in {VBool(TRUE), VBool(FALSE), None} : AppConfirmSave(a)

ValidateConfigCmdStep ==
    \E i \in 1..Len(Paths) : \E m \in {"<None>"} \cup {f[1] : f \in Fqns} :
        ValidateConfigCmd(Paths[i], m)

ShowSchemaStep == \E f \in Fqns : ShowSchema(f[1])

AppInit ==
    /\ RegIdle /\ PmIdle /\ VfIdle /\ CdIdle /\ AppIdle
    /\ files \in {<<a, b>> : a \in StoredDocuments, b \in {NoFile, EditedDocument}}
    /\ ymCall = <<>>
    /\ ymLoaded = <<>>

AppNext ==
    \/ NewConfigStep
    \/ EditConfigStep
    \/ AppPromptModel
    \/ AppValidate
    \/ AppRepairDecision
    \/ AppRepairField
    \/ AppValidated
    \/ AppConfirmSaveStep
    \/ ValidateConfigCmdStep
    \/ ShowSchemaStep

SpecApp == AppInit /\ [][AppNext]_vars

----------------------------------------------------------------------------
(* File claims *)

\* the last load read the file the last serialize_to_yaml call wrote
ReadBack == ymCall # <<>> /\ ymLoaded # <<>> /\ ymLoaded[1] = ymCall[3]

\* maps keep their keys in order, lists their elements in order, and what
\* YAML holds natively comes back as it was
RECURSIVE KeepsOrder(_, _)
KeepsOrder(written, read) ==
    CASE written.t \in {"dict", "model"} ->
            /\ read.t = "dict"
            /\ read.ks = written.ks
            /\ Len(read.xs) = Len(written.xs)
            /\ \A i \in 1..Len(written.xs) : KeepsOrder(written.xs[i], read.xs[i])
      [] written.t = "list" ->
            /\ read.t = "list"
            /\ Len(read.xs) = Len(written.xs)
            /\ \A i \in 1..Len(written.xs) : KeepsOrder(written.xs[i], read.xs[i])
      [] written.t \in {"None", "str", "int", "bool", "float"} -> read = written
      [] OTHER -> TRUE

\* C24: reading back with load_from_yaml the file serialize_to_yaml wrote
\* returns the model name that was written, the module-qualified class name of
\* the configuration class, and a configuration map with the same keys in the
\* same insertion order, every list in the same order and nested maps with
\* their entries.
C24_YamlRoundTrip ==
    ReadBack =>
        /\ ymLoaded[2] = VStr(ymCall[4])
        /\ ymLoaded[3] = VStr("tests.conftest." \o ymCall[2])
        /\ KeepsOrder(ymCall[1], ymLoaded[4])

\* a map with a nested map, a list and a nested structure, written under a
\* model name that reads as a number, and read back
C24_Witness ==
    /\ ReadBack
    /\ ymCall[4] = "1"
    /\ DictHas(ymCall[1], "inner")
    /\ ymLoaded[4].ks = ymCall[1].ks
    /\ DictGet(ymLoaded[4], "tags") = DictGet(ymCall[1], "tags")

\* enc is the encoding of value, at every depth
RECURSIVE EncodedAs(_, _)
EncodedAs(value, enc) ==
    CASE value.t = "None" -> enc = None
      [] value.t = "Decimal" -> enc.t = "str" /\ enc.s = DecimalStr(value)
      [] value.t = "enum" -> enc = VStr(value.s)
      [] value.t = "timedelta" -> enc.t = "float" /\ enc.n = value.n
      [] value.t = "set" ->
            /\ enc.t = "list"
            /\ Len(enc.xs) = Len(value.xs)
            /\ \A i \in 1..Len(value.xs) :
                  \E j \in 1..Len(enc.xs) : EncodedAs(value.xs[i], enc.xs[j])
            /\ \A i \in 1..Len(value.xs) : \A j \in 1..Len(value.xs) :
                  StrRank(PyStr(value.xs[i])) < StrRank(PyStr(value.xs[j]))
                  => \E a \in 1..Len(enc.xs) : \E b \in a + 1..Len(enc.xs) :
                        /\ EncodedAs(value.xs[i], enc.xs[a])
                        /\ EncodedAs(value.xs[j], enc.xs[b])
      [] value.t \in {"dict", "model", "list"} ->
            /\ Len(enc.xs) = Len(value.xs)
            /\ \A i \in 1..Len(value.xs) : EncodedAs(value.xs[i], enc.xs[i])
      [] OTHER -> TRUE

\* C25: in the configuration section serialize_to_yaml writes, at every nesting
\* depth, a Decimal is its exact decimal string, an enumeration member its
\* underlying value, a set a sequence sorted by the elements' string form, a
\* timedelta a numeric count of total seconds, and None stays None.
C25_EncodedConfiguration ==
    ReadBack => EncodedAs(ymCall[1], ymLoaded[4])

\* a written map holding sets given out of order, a Decimal inside a list
\* inside it, a timedelta and an enumeration set, read back
C25_Witness ==
    /\ ReadBack
    /\ DictHas(ymCall[1], "nested")
    /\ DictGet(ymCall[1], "ids") = VSet(<<VInt(10), VInt(9)>>)
    /\ DictGet(ymLoaded[4], "ids") = VList(<<VInt(10), VInt(9)>>)
    /\ DictGet(ymLoaded[4], "modifiers") = VList(<<VStr("a"), VStr("b")>>)
    /\ DictGet(ymLoaded[4], "timeout") = VFloat(54000)

----------------------------------------------------------------------------
(* Command claims *)

\* the command ended because its structure-type lookup failed
LookupFailed ==
    appPc = "exited" /\ \E i \in 1..Len(appLog) : appLog[i] = "lookup failed"

\* position of the first occurrence of an event in the command's history, 0
\* when it has none
At(event) ==
    IF \E i \in 1..Len(appLog) : appLog[i] = event
    THEN CHOOSE i \in 1..Len(appLog) :
            appLog[i] = event /\ \A j \in 1..i - 1 : appLog[j] # event
    ELSE 0

\* C26: in each of new, edit, validate and show-schema, when the
\* structure-type lookup fails (module cannot be imported, name missing, not a
\* model class) the command exits with code 1 without issuing any prompt and
\* without writing any file.
C26_LookupFailureExits ==
    LookupFailed =>
        /\ appExit = 1
        /\ pmLog = <<>> /\ pmClass = "<None>"
        /\ vfPc = "idle"
        /\ At("confirm True") = 0 /\ At("confirm False") = 0 /\ At("confirm None") = 0
        /\ At("write") = 0
        /\ ymCall = <<>>

\* edit of a file whose metadata name a module that cannot be imported
C26_Witness ==
    /\ LookupFailed
    /\ appCmd[1] = "edit"
    /\ ymLoaded # <<>>
    /\ ymLoaded[3] = VStr("nomodule.Thing")
    /\ appExit = 1

\* C27: new and edit write a file only after validate_and_fix returned an
\* instance and the operator then confirmed saving, in that order; a loop that
\* ends Aborted makes the command exit 1 with nothing written, a declined save
\* confirmation exit 0 with nothing written; edit without an output option
\* writes to the file it loaded.
C27_WriteAfterValidationAndConfirm ==
    /\ (ymCall # <<>> \/ At("write") > 0) =>
          /\ appCmd[1] \in {"new", "edit"}
          /\ At("returned instance") > 0
          /\ At("returned instance") < At("confirm True")
          /\ At("confirm True") < At("write")
          /\ vfPc = "Done"
          /\ vfResult # None
          /\ (appCmd[1] = "edit" /\ appCmd[3] = "<None>") =>
                /\ ymCall[3] = appCmd[2]
                /\ files[PathIndex(appCmd[2])] # NoFile
    /\ (appPc = "exited" /\ vfPc = "Aborted") =>
          appExit = 1 /\ ymCall = <<>> /\ At("write") = 0
    /\ (appPc = "exited" /\ (At("confirm False") > 0 \/ At("confirm None") > 0)) =>
          appExit = 0 /\ ymCall = <<>> /\ At("write") = 0

\* edit out.yaml without an output option, repaired once, saved on yes
C27_Witness ==
    /\ appPc = "exited"
    /\ appCmd = <<"edit", "out.yaml", "<None>">>
    /\ vfRounds >= 1
    /\ At("write") > 0
    /\ ymCall[3] = "out.yaml"
    /\ appExit = 0

\* the command wrote a file
Saved == appPc = "exited" /\ At("write") > 0

\* C30: when validate_and_fix returns an instance, it is the result of
\* validating the final contents of the caller's map, modified in place with
\* every repair replacement; new and edit write that same map, so the saved
\* configuration passes validation against the structure.
C30_SavedMapIsValidatedMap ==
    /\ (vfPc = "Done" /\ appPc # "idle") =>
          /\ validation_errors(vfClass, vfData) = <<>>
          /\ vfResult = construct(vfClass, vfData)
          /\ \A i \in 1..Len(vfRoundLog) :
                vfRoundLog[i].answer # None =>
                    DictHas(vfData, vfRoundLog[i].name)
    /\ Saved =>
          /\ ymCall[1] = vfData
          /\ LET read == load_from_yaml(files, ymCall[3])
             IN  /\ read[3] = _prepare_dict(vfData)
                 /\ validation_errors(appClass, read[3]) = <<>>

\* new: a cancelled prompt left None in the map, a repair round replaced it,
\* the instance was returned and the map saved
C30_Witness ==
    /\ Saved
    /\ appCmd[1] = "new"
    /\ vfRounds >= 1
    /\ vfData # pmResult
    /\ \E i \in 1..Len(pmResult.xs) : pmResult.xs[i] = None
    /\ \E i \in 1..Len(vfData.xs) : vfData.xs[i] = VStr("7")

====
